---- MODULE Spec2Model ----
(***************************************************************************)
(* A model of clade's array-based taxonomy (src/src/taxo.rs): the          *)
(* Taxonomy store, ancestor-preserving pruning (prune_by_taxids,           *)
(* prune_by_names, add_ancestors_to_keep) and the Newick encoder           *)
(* (to_newick, newick_recursive).                                          *)
(*                                                                         *)
(* Conventions.  Rust vectors are 0-based; the sequences of this module    *)
(* are 1-based, so position i of the code is position i+1 here.            *)
(* Option<usize> is modelled by 0 for None and the position for Some.      *)
(* An f64 distance is modelled by its number of halves (2 is 1.0, 3 is     *)
(* 1.5), and DisplayF64 writes it the way Rust's `{}` does.  A String      *)
(* built by format! is modelled by the sequence of its pieces.             *)
(***************************************************************************)
EXTENDS Integers, Sequences, FiniteSets, TLC

VARIABLES
    taxonomy,   \* the Taxonomy built by Taxonomy::new (main.rs 149-155)
    pruned,     \* the Taxonomy returned by the last prune call
    newick,     \* the outcome of the last to_newick call
    op,         \* the last call made
    input,      \* the receiver (&self) of the last call, as it was before the call
    args,       \* the list argument of the last prune call
    \* the relational tree (src/src/tree.rs)
    table,      \* the rows of a gtdb_tree table, in the order the store returns them
    leaf_nodes, \* the Vec<usize> of leaf ids handed to build_pruned_tree
    call,       \* the arguments of the last build_pruned_tree call
    outcome,    \* the Result<Option<Node>> it returned
    fetches,    \* the queries it sent to the store, in order
    buffer,     \* the String that write_node_to_newick appends to
    tree_op,    \* the last call made on the relational tree
    \* the identifier classifier (src/src/generate.rs)
    genome_taxonomy, \* the rows of the genome_taxonomy table
    data,       \* the tokens handed to process_data
    classes,    \* its locals species, ncbi_taxids, ncbi_ids after the loop
    resolved,   \* the io::Result<Vec<String>> it returned
    queries,    \* the batched lookups it sent to the store, in order
    \* the loader (src/src/ncbi.rs)
    nodes_dmp,  \* the lines of nodes.dmp, each as its parts
    names_dmp,  \* the lines of names.dmp, each as its parts
    loaded,     \* what load returned
    \* a call that is run step by step
    pc,         \* where the call is
    stack       \* its frames, the innermost last

taxoVars == <<taxonomy, pruned, newick, op, input, args>>

treeVars == <<table, leaf_nodes, call, outcome, fetches, buffer, tree_op>>

genVars == <<genome_taxonomy, data, classes, resolved, queries>>

ncbiVars == <<nodes_dmp, names_dmp, loaded>>

runVars == <<pc, stack>>

vars == <<taxoVars, treeVars, genVars, ncbiVars, runVars>>

(***************************** bounds **************************************)
MaxNodes == 3
MaxKeep == 2

(***************************** helpers *************************************)
Range(s) == {s[i] : i \in DOMAIN s}

SeqsUpTo(S, n) == UNION {[1..k -> S] : k \in 0..n}

Max(S) == CHOOSE m \in S : \A x \in S : x <= m

Min(S) == CHOOSE m \in S : \A x \in S : m <= x

(***************************** Taxonomy ************************************)
Taxonomy(taxid_vec, parentid_vec, name_vec, rank_vec, parent_distances) ==
    [taxid_vec |-> taxid_vec,
     parentid_vec |-> parentid_vec,
     name_vec |-> name_vec,
     rank_vec |-> rank_vec,
     parent_distances |-> parent_distances]

\* Faulty variant: the distance is written with one decimal ("{:.1}").
DisplayF64OneDecimal(d) ==
    ToString(d \div 2) \o (IF d % 2 = 0 THEN ".0" ELSE ".5")

\* Rust's Display of an f64 (format!("{}", d)): 0.0 is "0", 1.0 is "1", 1.5 is "1.5".
DisplayF64(d) ==
    IF d % 2 = 0 THEN ToString(d \div 2) ELSE ToString(d \div 2) \o ".5"

\* The HashMap collected from (id, i) pairs: a later pair overwrites an earlier one.
taxid_to_index(t, taxid) ==
    LET hits == {i \in DOMAIN t.taxid_vec : t.taxid_vec[i] = taxid}
    IN  IF hits = {} THEN 0 ELSE Max(hits)

\* Faulty variant: the walk tests for the root before it marks, so a root is never marked.
RECURSIVE add_ancestors_unmarked_root(_, _, _)
add_ancestors_unmarked_root(t, keep_indices, index) ==
    IF index \in keep_indices \/ t.parentid_vec[index] = index
    THEN keep_indices
    ELSE add_ancestors_unmarked_root(t, keep_indices \cup {index}, t.parentid_vec[index])

\* Faulty variant: an `if` in place of the `while`: the node and its parent are marked,
\* and the walk goes no further.
add_ancestors_one_step(t, keep_indices, index) ==
    IF index \in keep_indices
    THEN keep_indices
    ELSE keep_indices \cup {index, t.parentid_vec[index]}

RECURSIVE add_ancestors_to_keep(_, _, _)
add_ancestors_to_keep(t, keep_indices, index) ==
    IF index \in keep_indices
    THEN keep_indices
    ELSE LET marked == keep_indices \cup {index}
             parent_index == t.parentid_vec[index]
         IN  IF parent_index = index
             THEN marked
             ELSE add_ancestors_to_keep(t, marked, parent_index)

\* Faulty variant: an id the store does not hold falls back to the first node
\* (unwrap_or(0), as the loader resolves parents).
RECURSIVE mark_requested_or_first(_, _, _, _)
mark_requested_or_first(t, taxids, k, keep_indices) ==
    IF k > Len(taxids)
    THEN keep_indices
    ELSE LET found == taxid_to_index(t, taxids[k])
             index == IF found = 0 /\ t.taxid_vec # <<>> THEN 1 ELSE found
         IN  mark_requested_or_first(t, taxids, k + 1,
                 IF index # 0
                 THEN add_ancestors_to_keep(t, keep_indices, index)
                 ELSE keep_indices)

\* The loop over taxids (lines 38-42), from the k-th requested id on.
RECURSIVE mark_requested(_, _, _, _)
mark_requested(t, taxids, k, keep_indices) ==
    IF k > Len(taxids)
    THEN keep_indices
    ELSE LET index == taxid_to_index(t, taxids[k])
         IN  mark_requested(t, taxids, k + 1,
                 IF index # 0
                 THEN add_ancestors_to_keep(t, keep_indices, index)
                 ELSE keep_indices)

EmptyMap == [x \in {} |-> 0]

\* The five new vectors and old_to_new_index before the copy loop (lines 45-50).
NewVectors ==
    [taxid_vec |-> <<>>, parentid_vec |-> <<>>, name_vec |-> <<>>,
     rank_vec |-> <<>>, parent_distances |-> <<>>, old_to_new_index |-> EmptyMap]

\* The copy loop (lines 52-62), from old_index on.  The pushed parent index 0
\* is the code's temporary value.
RECURSIVE copy_kept(_, _, _, _)
copy_kept(t, keep_indices, old_index, new) ==
    IF old_index > Len(t.taxid_vec)
    THEN new
    ELSE copy_kept(t, keep_indices, old_index + 1,
             IF old_index \in keep_indices
             THEN LET new_index == Len(new.taxid_vec) + 1
                  IN  [taxid_vec |-> Append(new.taxid_vec, t.taxid_vec[old_index]),
                       name_vec |-> Append(new.name_vec, t.name_vec[old_index]),
                       rank_vec |-> Append(new.rank_vec, t.rank_vec[old_index]),
                       parentid_vec |-> Append(new.parentid_vec, 0),
                       parent_distances |->
                           Append(new.parent_distances, t.parent_distances[old_index]),
                       old_to_new_index |->
                           (old_index :> new_index) @@ new.old_to_new_index]
             ELSE new)

\* Faulty variant: the lookup of the parent in old_to_new_index is lost and every kept
\* node falls back to its own new index.
remap_parent_to_self(t, old_to_new_index, old_index) ==
    old_to_new_index[old_index]

\* Faulty variant: the old parent index is written without the remap.
remap_parent_unchanged(t, old_to_new_index, old_index) == t.parentid_vec[old_index]

\* One iteration of the parent update loop (lines 65-70); the fallback of
\* unwrap_or is the node's own new index.
remap_parent(t, old_to_new_index, old_index) ==
    LET new_index == old_to_new_index[old_index]
        old_parent_index == t.parentid_vec[old_index]
    IN  IF old_parent_index \in DOMAIN old_to_new_index
        THEN old_to_new_index[old_parent_index]
        ELSE new_index

\* The parent update loop: the HashMap is visited in an unspecified order, and
\* each entry writes its own new_index.
RECURSIVE update_parents(_, _, _, _)
update_parents(t, old_to_new_index, todo, new_parentid_vec) ==
    IF todo = {}
    THEN new_parentid_vec
    ELSE LET old_index == CHOOSE o \in todo : TRUE
         IN  update_parents(t, old_to_new_index, todo \ {old_index},
                 [new_parentid_vec EXCEPT ![old_to_new_index[old_index]] =
                     remap_parent(t, old_to_new_index, old_index)])

prune_by_taxids(t, taxids) ==
    LET keep_indices == mark_requested(t, taxids, 1, {})
        new == copy_kept(t, keep_indices, 1, NewVectors)
    IN  Taxonomy(new.taxid_vec,
                 update_parents(t, new.old_to_new_index,
                                DOMAIN new.old_to_new_index, new.parentid_vec),
                 new.name_vec,
                 new.rank_vec,
                 new.parent_distances)

\* Faulty variant: Iterator::rposition, the last position whose element equals x.
RECURSIVE position_last(_, _, _)
position_last(s, x, i) ==
    IF i > Len(s) THEN 0
    ELSE LET later == position_last(s, x, i + 1)
         IN  IF later # 0 THEN later ELSE IF s[i] = x THEN i ELSE 0

\* Iterator::position: the first position, in a forward scan from i, whose
\* element equals x; 0 when there is none.
RECURSIVE position(_, _, _)
position(s, x, i) ==
    IF i > Len(s) THEN 0
    ELSE IF s[i] = x THEN i
    ELSE position(s, x, i + 1)

\* names.iter().filter_map(position).map(taxid) (lines 82-86), from the k-th name on.
RECURSIVE names_to_taxids(_, _, _)
names_to_taxids(t, names, k) ==
    IF k > Len(names)
    THEN <<>>
    ELSE LET index == position(t.name_vec, names[k], 1)
         IN  (IF index # 0 THEN <<t.taxid_vec[index]>> ELSE <<>>)
                 \o names_to_taxids(t, names, k + 1)

prune_by_names(t, names) ==
    prune_by_taxids(t, names_to_taxids(t, names, 1))

(***************************** Newick **************************************)
\* child_strings.join(",")
RECURSIVE join(_, _)
join(strings, sep) ==
    IF strings = <<>> THEN <<>>
    ELSE IF Len(strings) = 1 THEN strings[1]
    ELSE strings[1] \o <<sep>> \o join(Tail(strings), sep)

\* Faulty variant: the children are collected from the last position down.
RECURSIVE children_of_descending(_, _, _)
children_of_descending(t, node_index, i) ==
    IF i > Len(t.parentid_vec)
    THEN <<>>
    ELSE children_of_descending(t, node_index, i + 1)
             \o (IF t.parentid_vec[i] = node_index /\ i # node_index THEN <<i>> ELSE <<>>)

\* Faulty variant: Iterator::find in place of filter, only the first child is collected.
RECURSIVE children_of_first(_, _, _)
children_of_first(t, node_index, i) ==
    IF i > Len(t.parentid_vec)
    THEN <<>>
    ELSE IF t.parentid_vec[i] = node_index /\ i # node_index
         THEN <<i>>
         ELSE children_of_first(t, node_index, i + 1)

\* The filter of lines 113-119, from position i on: ascending positions.
RECURSIVE children_of(_, _, _)
children_of(t, node_index, i) ==
    IF i > Len(t.parentid_vec)
    THEN <<>>
    ELSE (IF t.parentid_vec[i] = node_index /\ i # node_index THEN <<i>> ELSE <<>>)
             \o children_of(t, node_index, i + 1)

\* Faulty variant: the test for the root (lines 139-143) is lost and every node with
\* children is written with its stored distance.
RECURSIVE newick_recursive_stored(_, _)
newick_recursive_stored(t, node_index) ==
    LET children == children_of(t, node_index, 1)
    IN  IF children = <<>>
        THEN <<t.name_vec[node_index], "_", t.taxid_vec[node_index], "_",
               DisplayF64(t.parent_distances[node_index])>>
        ELSE LET child_strings ==
                     [c \in 1..Len(children) |-> newick_recursive_stored(t, children[c])]
             IN  <<"(">> \o join(child_strings, ",") \o
                 <<")", t.name_vec[node_index], "_", t.taxid_vec[node_index], ":",
                   DisplayF64(t.parent_distances[node_index])>>

RECURSIVE newick_recursive(_, _)
newick_recursive(t, node_index) ==
    LET children == children_of(t, node_index, 1)
    IN  IF children = <<>>
        THEN <<t.name_vec[node_index], "_", t.taxid_vec[node_index], "_",
               DisplayF64(t.parent_distances[node_index])>>
        ELSE LET child_strings ==
                     [c \in 1..Len(children) |-> newick_recursive(t, children[c])]
             IN  <<"(">> \o join(child_strings, ",") \o
                 <<")", t.name_vec[node_index], "_", t.taxid_vec[node_index], ":",
                   DisplayF64(IF node_index = t.parentid_vec[node_index]
                              THEN 0
                              ELSE t.parent_distances[node_index])>>

\* The scan of lines 103-106 from position i on: the closure is given the
\* ELEMENT p of parentid_vec and tests p == parentid_vec[p]; 0 when no
\* element passes.
RECURSIVE root_position(_, _)
root_position(t, i) ==
    IF i > Len(t.parentid_vec) THEN 0
    ELSE LET p == t.parentid_vec[i]
         IN  IF p = t.parentid_vec[p] THEN i ELSE root_position(t, i + 1)

\* to_newick returns a String; expect() on None panics.
to_newick(t) ==
    LET root_index == root_position(t, 1)
    IN  IF root_index = 0
        THEN [kind |-> "panic", text |-> <<"Root node not found">>]
        ELSE [kind |-> "ok", text |-> newick_recursive(t, root_index)]

\* The String that the pieces written by format! make up.
RECURSIVE Concat(_)
Concat(pieces) ==
    IF pieces = <<>> THEN "" ELSE pieces[1] \o Concat(Tail(pieces))

(***************************** inputs **************************************)
\* The ids of a store of n nodes: unique, as the data model requires, and
\* stored so that an id is not the number of its position.
Taxids(n) == [i \in 1..n |-> ToString(n + 1 - i)]

\* What a node carries besides its id and its parent; names repeat.
Payloads ==
    {[name |-> "Bacteria", rank |-> "domain",  dist |-> 2],
     [name |-> "E.coli",   rank |-> "species", dist |-> 3]}

\* Every store of n nodes whose parent indices are valid positions: trees,
\* forests, several self-referential nodes, cycles without one.
StoresOfSize(n) ==
    {Taxonomy(ids, par, [i \in 1..n |-> pay[i].name], [i \in 1..n |-> pay[i].rank],
              [i \in 1..n |-> pay[i].dist]) :
        ids \in {Taxids(n)}, par \in [1..n -> 1..n], pay \in [1..n -> Payloads]}

Stores == UNION {StoresOfSize(n) : n \in 0..MaxNodes}

\* Requested ids: ids that stores hold, and "0", which none holds.
RequestTaxids == {ToString(k) : k \in 0..MaxKeep}

RequestNames == {"Bacteria", "E.coli", "Archaea"}

NoTaxonomy == Taxonomy(<<>>, <<>>, <<>>, <<>>, <<>>)

NoNewick == [kind |-> "none", text |-> <<>>]

\* Option<T>: None, and Some(v).
None == [some |-> FALSE]

Some(v) == [some |-> TRUE, value |-> v]

NoCall == [node |-> 0, fail_at |-> 0]

NoOutcome == [kind |-> "none"]

NoClasses == [species |-> <<>>, ncbi_taxids |-> <<>>, ncbi_ids |-> <<>>]

\* Nothing was called on the relational tree.
TreeIdle ==
    /\ table = <<>>
    /\ leaf_nodes = <<>>
    /\ call = NoCall
    /\ outcome = NoOutcome
    /\ fetches = <<>>
    /\ buffer = <<>>
    /\ tree_op = "none"

\* No call is run step by step.
RunIdle ==
    /\ pc = "idle"
    /\ stack = <<>>

\* Nothing was loaded.
NcbiIdle ==
    /\ nodes_dmp = <<>>
    /\ names_dmp = <<>>
    /\ loaded = NoOutcome

\* Nothing was handed to the classifier.
GenIdle ==
    /\ genome_taxonomy = <<>>
    /\ data = <<>>
    /\ classes = NoClasses
    /\ resolved = NoOutcome
    /\ queries = <<>>

(***************************** the state machine ***************************)
Init ==
    /\ taxonomy \in Stores
    /\ pruned = NoTaxonomy
    /\ newick = NoNewick
    /\ op = "new"
    /\ input = NoTaxonomy
    /\ args = <<>>
    /\ TreeIdle
    /\ GenIdle
    /\ NcbiIdle
    /\ RunIdle

\* Faulty variant: the prune works in place, and the receiver becomes the pruned store.
PruneTaxonomyInPlace(taxids) ==
    /\ op = "new"
    /\ pruned' = prune_by_taxids(taxonomy, taxids)
    /\ taxonomy' = pruned'
    /\ op' = "prune_by_taxids"
    /\ input' = taxonomy
    /\ args' = taxids
    /\ UNCHANGED newick
    /\ UNCHANGED <<treeVars, genVars, ncbiVars, runVars>>

\* prune_taxonomy (lines 149-151), as main.rs 158 calls it.
PruneTaxonomy(taxids) ==
    /\ op = "new"
    /\ pruned' = prune_by_taxids(taxonomy, taxids)
    /\ op' = "prune_by_taxids"
    /\ input' = taxonomy
    /\ args' = taxids
    /\ UNCHANGED <<taxonomy, newick>>
    /\ UNCHANGED <<treeVars, genVars, ncbiVars, runVars>>

\* prune_taxonomy_by_names (lines 153-155), as main.rs 160 calls it.
PruneTaxonomyByNames(names) ==
    /\ op = "new"
    /\ pruned' = prune_by_names(taxonomy, names)
    /\ op' = "prune_by_names"
    /\ input' = taxonomy
    /\ args' = names
    /\ UNCHANGED <<taxonomy, newick>>
    /\ UNCHANGED <<treeVars, genVars, ncbiVars, runVars>>

\* prune_by_taxids called on the pruned Taxonomy with the same ids.
PruneAgain ==
    /\ op = "prune_by_taxids"
    /\ pruned' = prune_by_taxids(pruned, args)
    /\ op' = "prune_again"
    /\ input' = pruned
    /\ UNCHANGED <<taxonomy, newick, args>>
    /\ UNCHANGED <<treeVars, genVars, ncbiVars, runVars>>

\* taxonomy_to_newick (lines 157-159) on the Taxonomy in hand: the pruned one
\* (main.rs 168), or the loaded one when nothing was pruned.
TaxonomyToNewick ==
    /\ op \in {"new", "prune_by_taxids", "prune_by_names"}
    /\ LET t == IF op = "new" THEN taxonomy ELSE pruned
       IN  /\ newick' = to_newick(t)
           /\ input' = t
    /\ op' = "to_newick"
    /\ args' = <<>>
    /\ UNCHANGED <<taxonomy, pruned>>
    /\ UNCHANGED <<treeVars, genVars, ncbiVars, runVars>>

Next ==
    \/ \E taxids \in SeqsUpTo(RequestTaxids, MaxKeep) : PruneTaxonomy(taxids)
    \/ \E names \in SeqsUpTo(RequestNames, MaxKeep) : PruneTaxonomyByNames(names)
    \/ PruneAgain
    \/ TaxonomyToNewick

Spec == Init /\ [][Next]_vars

(***************************** vocabulary of the properties ****************)
Positions(t) == DOMAIN t.taxid_vec

\* The k-th node on the way up from position i.
RECURSIVE Ancestor(_, _, _)
Ancestor(t, i, k) == IF k = 0 THEN i ELSE Ancestor(t, t.parentid_vec[i], k - 1)

\* Position i and every position above it.
Lineage(t, i) == {Ancestor(t, i, k) : k \in 0..Len(t.taxid_vec)}

SelfReferential(t, i) == t.parentid_vec[i] = i

ReachesRoot(t, i) == \E j \in Lineage(t, i) : SelfReferential(t, j)

\* The number of steps from position i up to the root it reaches.
Depth(t, i) == Min({k \in 0..Len(t.taxid_vec) : SelfReferential(t, Ancestor(t, i, k))})

Present(t, taxid) == \E i \in Positions(t) : t.taxid_vec[i] = taxid

\* The positions holding a requested id.
Requested(t, taxids) == {i \in Positions(t) : t.taxid_vec[i] \in Range(taxids)}

\* The requested positions and all their ancestors.
Retained(t, taxids) == UNION {Lineage(t, i) : i \in Requested(t, taxids)}

\* The members of a set of positions, ascending.
RECURSIVE Ascending(_)
Ascending(S) == IF S = {} THEN <<>> ELSE <<Min(S)>> \o Ascending(S \ {Min(S)})

\* The elements of s at the positions S, in the order of s.
Restrict(s, S) == [k \in 1..Cardinality(S) |-> s[Ascending(S)[k]]]

Size(t) == Len(t.taxid_vec)

ZeroNodeStore(t) ==
    /\ t.taxid_vec = <<>>
    /\ t.parentid_vec = <<>>
    /\ t.name_vec = <<>>
    /\ t.rank_vec = <<>>
    /\ t.parent_distances = <<>>

(***************************** C1 ******************************************)
\* C1: after prune_by_taxids(store, keep_ids) the result holds exactly the
\* positions of requested ids present in the store and their ancestors, in the
\* relative order of the input, each with its id, name, rank and distance.
C1_PruneKeepsRequestedAndAncestors ==
    op = "prune_by_taxids" =>
        LET S == Retained(input, args)
        IN  /\ pruned.taxid_vec = Restrict(input.taxid_vec, S)
            /\ pruned.name_vec = Restrict(input.name_vec, S)
            /\ pruned.rank_vec = Restrict(input.rank_vec, S)
            /\ pruned.parent_distances = Restrict(input.parent_distances, S)
            /\ Len(pruned.parentid_vec) = Cardinality(S)

\* Two ids requested; an ancestor that was not requested is kept and another
\* node is dropped.
C1_Witness ==
    /\ op = "prune_by_taxids"
    /\ Len(args) = 2
    /\ args[1] # args[2]
    /\ Retained(input, args) # Requested(input, args)
    /\ Size(pruned) < Size(input)
    /\ Size(pruned) = Cardinality(Retained(input, args))

(***************************** C2 ******************************************)
\* C2: pruning by one id that is present and reaches a root keeps exactly the
\* chain from that id up to the root: depth + 1 nodes and no other.
C2_SingleIdKeepsItsChain ==
    (op = "prune_by_taxids" /\ Len(args) = 1 /\ Present(input, args[1])) =>
        LET i == CHOOSE p \in Positions(input) : input.taxid_vec[p] = args[1]
        IN  ReachesRoot(input, i) =>
                /\ Size(pruned) = Depth(input, i) + 1
                /\ Range(pruned.taxid_vec) =
                       {input.taxid_vec[Ancestor(input, i, k)] : k \in 0..Depth(input, i)}

\* A node two steps below its root, in a store that holds nothing else.
C2_Witness ==
    /\ op = "prune_by_taxids"
    /\ Len(args) = 1
    /\ \E i \in Positions(input) :
           /\ input.taxid_vec[i] = args[1]
           /\ ReachesRoot(input, i)
           /\ Depth(input, i) = 2
    /\ Size(pruned) = 3

(***************************** C3 ******************************************)
\* C3: requested ids that the store does not hold are ignored: the result is
\* that of pruning by the requested ids the store holds, and it is the
\* zero-node store when none of them is held.
C3_AbsentIdsIgnored ==
    op = "prune_by_taxids" =>
        LET held(taxid) == Present(input, taxid)
        IN  /\ pruned = prune_by_taxids(input, SelectSeq(args, held))
            /\ (\A k \in DOMAIN args : ~held(args[k])) => ZeroNodeStore(pruned)

\* An id the store does not hold is requested before one it holds.
C3_Witness ==
    /\ op = "prune_by_taxids"
    /\ Len(args) = 2
    /\ ~Present(input, args[1])
    /\ Present(input, args[2])
    /\ Size(pruned) >= 2

(***************************** C4 ******************************************)
SameStore(a, b) ==
    /\ a.taxid_vec = b.taxid_vec
    /\ a.parentid_vec = b.parentid_vec
    /\ a.name_vec = b.name_vec
    /\ a.rank_vec = b.rank_vec
    /\ a.parent_distances = b.parent_distances

\* C4: pruning the result of prune_by_taxids again by the same ids returns a
\* store equal to that result in all five sequences.
C4_PruneIdempotent ==
    op = "prune_again" => SameStore(pruned, input)

\* The first prune dropped a node and kept a requested node with an ancestor.
C4_Witness ==
    /\ op = "prune_again"
    /\ Size(input) < Size(taxonomy)
    /\ Size(pruned) >= 2
    /\ \E i \in Positions(pruned) : ~SelfReferential(pruned, i)

(***************************** C5 ******************************************)
\* C5: prune_by_taxids and prune_by_names leave the store they are called on
\* as it was before the call, in all five sequences.
C5_PruneLeavesInputUnchanged ==
    op \in {"prune_by_taxids", "prune_by_names"} => SameStore(taxonomy, input)

\* A prune that returned a smaller, non-empty store.
C5_Witness ==
    /\ op \in {"prune_by_taxids", "prune_by_names"}
    /\ 0 < Size(pruned)
    /\ Size(pruned) < Size(taxonomy)

(***************************** C6 ******************************************)
Named(t, name) == {i \in Positions(t) : t.name_vec[i] = name}

\* The first position of each requested name that some node bears.
FirstMatches(t, names) == {Min(Named(t, n)) : n \in {m \in Range(names) : Named(t, m) # {}}}

\* The ids at the first positions of the requested names, in the order of the
\* request, names that no node bears left out.
FirstMatchTaxids(t, names) ==
    LET borne(n) == Named(t, n) # {}
        found == SelectSeq(names, borne)
    IN  [k \in 1..Len(found) |-> t.taxid_vec[Min(Named(t, found[k]))]]

\* C6: prune_by_names resolves each name to the first position bearing it,
\* drops names no node bears, and returns what prune_by_taxids returns for the
\* ids at those positions: the first bearers and their ancestors, no more.
C6_PruneByNamesUsesFirstMatch ==
    op = "prune_by_names" =>
        /\ pruned = prune_by_taxids(input, FirstMatchTaxids(input, args))
        /\ pruned.taxid_vec =
               Restrict(input.taxid_vec,
                        UNION {Lineage(input, i) : i \in FirstMatches(input, args)})

\* A requested name borne by two nodes, the later of which is not kept.
C6_Witness ==
    /\ op = "prune_by_names"
    /\ \E i, j \in Positions(input) :
           /\ i < j
           /\ input.name_vec[i] \in Range(args)
           /\ input.name_vec[j] = input.name_vec[i]
           /\ input.taxid_vec[j] \notin Range(pruned.taxid_vec)
    /\ \E n \in Range(args) : Named(input, n) = {}

(***************************** C7 ******************************************)
SelfReferentials(t) == {i \in Positions(t) : SelfReferential(t, i)}

\* The root of the data model: the first self-referential position.
Root(t) == Min(SelfReferentials(t))

\* An encoding ends with the outermost node's name, "_", id, a separator and
\* its distance.
OutermostTaxid(text) == text[Len(text) - 2]

OutermostDistance(text) == text[Len(text)]

\* C7: to_newick starts from the first position i with parentid_vec[i] = i,
\* also when a child of the root is stored before the root.
C7_EncodeStartsAtRoot ==
    (op = "to_newick" /\ SelfReferentials(input) # {}) =>
        /\ newick.kind = "ok"
        /\ OutermostTaxid(newick.text) = input.taxid_vec[Root(input)]

(***************************** C8 ******************************************)
\* C8: to_newick on a store without a self-referential node, the zero-node
\* store included, returns an EmptyResult error value to its caller.
C8_NoRootReturnsEmptyResult ==
    (op = "to_newick" /\ SelfReferentials(input) = {}) => newick.kind = "EmptyResult"

(***************************** C9 ******************************************)
\* The children of a node: the other positions that name it as parent.
ChildSet(t, node) == {j \in Positions(t) \ {node} : t.parentid_vec[j] = node}

\* The first k of the encodings, with a comma between neighbours.
RECURSIVE CommaSeparated(_, _)
CommaSeparated(encodings, k) ==
    IF k = 0 THEN <<>>
    ELSE CommaSeparated(encodings, k - 1)
             \o (IF k > 1 THEN <<",">> ELSE <<>>) \o encodings[k]

\* What the format rules give for a node: name_id_distance without children,
\* (c1,c2,...)name_id:distance with them, children in ascending position.
RECURSIVE Written(_, _)
Written(t, node) ==
    LET kids == Ascending(ChildSet(t, node))
        label == <<t.name_vec[node], "_", t.taxid_vec[node]>>
    IN  IF kids = <<>>
        THEN label \o <<"_", DisplayF64(t.parent_distances[node])>>
        ELSE <<"(">>
                 \o CommaSeparated([k \in 1..Len(kids) |-> Written(t, kids[k])], Len(kids))
                 \o <<")">> \o label
                 \o <<":", DisplayF64(IF SelfReferential(t, node)
                                      THEN 0
                                      ELSE t.parent_distances[node])>>

\* C9: the text of to_newick follows the format rules from the node it starts
\* at: a childless node is name_id_distance, a node with children is
\* (c1,c2,...)name_id:distance, its children being the other positions that
\* name it as parent, encoded the same way in ascending position.
C9_EncodingFormat ==
    (op = "to_newick" /\ newick.kind = "ok") =>
        newick.text = Written(input, root_position(input, 1))

\* A root written with its two children, the first of which has a stored
\* distance other than the second's.
C9_Witness ==
    /\ op = "to_newick"
    /\ newick.kind = "ok"
    /\ \E r \in Positions(input) :
           /\ SelfReferential(input, r)
           /\ ChildSet(input, r) = {r + 1, r + 2}
           /\ input.parent_distances[r + 1] # input.parent_distances[r + 2]
           /\ OutermostTaxid(newick.text) = input.taxid_vec[r]
           /\ Len(newick.text) = 18

(***************************** C10 *****************************************)
RootIsOutermost ==
    /\ op = "to_newick"
    /\ newick.kind = "ok"
    /\ SelfReferentials(input) # {}
    /\ OutermostTaxid(newick.text) = input.taxid_vec[Root(input)]

\* C10 as claimed: the distance written for the root is 0.0 whatever its
\* stored distance and whatever the number of its children, none included.
C10_RootDistanceAlwaysZero ==
    RootIsOutermost => OutermostDistance(newick.text) = DisplayF64(0)

\* C10 as amended: the distance written for the root is 0.0 whatever its stored
\* distance when the root has a child; a root without children is written as
\* a leaf, with its stored distance.
C10_RootDistanceZeroWithChildren ==
    RootIsOutermost =>
        OutermostDistance(newick.text) =
            IF ChildSet(input, Root(input)) # {}
            THEN DisplayF64(0)
            ELSE DisplayF64(input.parent_distances[Root(input)])

\* A root with a child and a stored distance of 1.5, written with 0.
C10_Witness ==
    /\ RootIsOutermost
    /\ ChildSet(input, Root(input)) # {}
    /\ input.parent_distances[Root(input)] = 3
    /\ OutermostDistance(newick.text) = "0"

(***************************** C11 *****************************************)
\* The largest stored distance of the scenario, in halves.
MaxHalves == 3

\* The three-node store of the scenario: root 1, Bacteria 2 under it, E.coli 3
\* under Bacteria, with any stored distances.
ScenarioStore(d1, d2, d3) ==
    Taxonomy(<<"1", "2", "3">>, <<1, 1, 2>>, <<"root", "Bacteria", "E.coli">>,
             <<"no rank", "domain", "species">>, <<d1, d2, d3>>)

ScenarioStores ==
    {ScenarioStore(d1, d2, d3) : d1 \in 0..MaxHalves, d2 \in 0..MaxHalves, d3 \in 0..MaxHalves}

ScenarioTaxids == {"1", "2", "3", "4"}

ScenarioInit ==
    /\ taxonomy \in ScenarioStores
    /\ pruned = NoTaxonomy
    /\ newick = NoNewick
    /\ op = "new"
    /\ input = NoTaxonomy
    /\ args = <<>>
    /\ TreeIdle
    /\ GenIdle
    /\ NcbiIdle
    /\ RunIdle

ScenarioNext ==
    \/ \E taxids \in SeqsUpTo(ScenarioTaxids, 1) : PruneTaxonomy(taxids)
    \/ PruneAgain
    \/ TaxonomyToNewick

ScenarioSpec == ScenarioInit /\ [][ScenarioNext]_vars

\* The text the claim gives for the scenario, and the text of the format
\* rules: a node with children is written name_id:distance.
ScenarioTextClaimed(t) ==
    "((E.coli_3_" \o DisplayF64(t.parent_distances[3]) \o ")Bacteria_2_"
        \o DisplayF64(t.parent_distances[2]) \o ")root_1_0"

ScenarioTextWritten(t) ==
    "((E.coli_3_" \o DisplayF64(t.parent_distances[3]) \o ")Bacteria_2:"
        \o DisplayF64(t.parent_distances[2]) \o ")root_1:0"

ScenarioPruneKeepsAll ==
    (op = "prune_by_taxids" /\ args = <<"3">>) => SameStore(pruned, input)

EncodedAllThree ==
    /\ op = "to_newick"
    /\ input \in ScenarioStores

\* C11 as claimed: in the scenario prune_by_taxids(store, ["3"]) keeps the three
\* nodes in their order and the encoding of the result is
\* ((E.coli_3_<d3>)Bacteria_2_<d2>)root_1_0, with no ';' at its end.
C11_ScenarioTextAsClaimed ==
    /\ ScenarioPruneKeepsAll
    /\ EncodedAllThree =>
           /\ newick.kind = "ok"
           /\ Concat(newick.text) = ScenarioTextClaimed(input)
           /\ ";" \notin Range(newick.text)

\* C11 as amended: the three nodes are kept in their order and the encoding of
\* the result is ((E.coli_3_<d3>)Bacteria_2:<d2>)root_1:0, with no ';'.
C11_ScenarioText ==
    /\ ScenarioPruneKeepsAll
    /\ EncodedAllThree =>
           /\ newick.kind = "ok"
           /\ Concat(newick.text) = ScenarioTextWritten(input)
           /\ ";" \notin Range(newick.text)

\* The store pruned by "3", with distances 1.5 and 1.0, has been encoded.
C11_Witness ==
    /\ EncodedAllThree
    /\ input = pruned
    /\ SameStore(pruned, taxonomy)
    /\ Concat(newick.text) = "((E.coli_3_1)Bacteria_2:1.5)root_1:0"

(***************************** C12 *****************************************)
Count(text, piece) == Cardinality({k \in DOMAIN text : text[k] = piece})

\* Every node is written as five pieces (name, "_", id, a separator, distance);
\* one with descendants follows a ")".
NodesWritten(text) ==
    (Len(text) - Count(text, "(") - Count(text, ")") - Count(text, ",")) \div 5

LeafLabels(text) == NodesWritten(text) - Count(text, ")")

Childless(t, S) == {p \in S : ChildSet(t, p) = {}}

\* The positions at or below a node.
Subtree(t, node) == {p \in Positions(t) : node \in Lineage(t, p)}

MaxRows == 3

\* Faulty variant: the first character alone decides.
starts_with_first(s, prefix) == s # <<>> /\ s[1] = prefix[1]

starts_with(s, prefix) ==
    Len(s) >= Len(prefix) /\ SubSeq(s, 1, Len(prefix)) = prefix

\* str::replace of one character.
replace(s, from, to) == [i \in DOMAIN s |-> IF s[i] = from THEN to ELSE s[i]]

unwrap_or(option, default) == IF option.some THEN option.value ELSE default

RECURSIVE Digits(_)
Digits(n) ==
    IF n < 10 THEN <<ToString(n)>> ELSE Append(Digits(n \div 10), ToString(n % 10))

RECURSIVE ZeroPadded(_, _)
ZeroPadded(digits, width) ==
    IF Len(digits) >= width THEN digits ELSE ZeroPadded(<<"0">> \o digits, width)

RECURSIVE Pow10(_)
Pow10(k) == IF k = 0 THEN 1 ELSE 10 * Pow10(k - 1)

\* `{:.precision}` of the number that is v counted in units of 10^-precision.
FormatFixed(v, precision) ==
    Digits(v \div Pow10(precision)) \o <<".">>
        \o ZeroPadded(Digits(v % Pow10(precision)), precision)

\* Node::from_row (lines 16-26).
from_row(row) ==
    [node |-> row.node, parent |-> row.parent, name |-> row.name,
     length |-> row.length, bootstrap |-> row.bootstrap, rank |-> row.rank,
     children |-> <<>>]

\* The label of a node (lines 42-49).
label(node) ==
    LET rank == unwrap_or(node.rank, <<>>)
        name == IF starts_with(rank, <<"s", "_", "_">>) THEN rank ELSE node.name
    IN  replace(replace(name, ";", "+"), " ", "_")

\* write_node_to_newick (lines 29-61): the String buf after the call.
RECURSIVE write_node_to_newick(_, _)

\* Faulty variant: no ',' between the children.
RECURSIVE write_children_unseparated(_, _, _)
write_children_unseparated(children, i, buf) ==
    IF i > Len(children) THEN buf
    ELSE write_children_unseparated(children, i + 1,
             write_node_to_newick(children[i], buf))

\* Its loop over the children (lines 32-37), from the i-th child on.
RECURSIVE write_children(_, _, _)
write_children(children, i, buf) ==
    IF i > Len(children) THEN buf
    ELSE write_children(children, i + 1,
             write_node_to_newick(children[i],
                 IF i > 1 THEN Append(buf, ",") ELSE buf))

write_node_to_newick(node, buf) ==
    LET closed == IF node.children # <<>>
                  THEN Append(write_children(node.children, 1, Append(buf, "(")), ")")
                  ELSE buf
        named == closed \o label(node)
        measured == IF node.length # 0
                    THEN named \o <<":">> \o FormatFixed(node.length, 6)
                    ELSE named
    IN  IF node.bootstrap # 0
        THEN measured \o <<"[">> \o FormatFixed(node.bootstrap, 2) \o <<"]">>
        ELSE measured

\* SELECT node FROM t WHERE rank IN (ranks) (lines 63-83); a NULL rank is in no list.
get_leaf_nodes_by_rank(tbl, ranks) ==
    LET chosen(r) == r.rank.some /\ r.rank.value \in Range(ranks)
        rows == SelectSeq(tbl, chosen)
    IN  [i \in DOMAIN rows |-> rows[i].node]

\* SELECT ... FROM t WHERE node = ? (lines 126-133): the rows that answer.
query_row(tbl, node) ==
    LET found(r) == r.node = node
    IN  SelectSeq(tbl, found)

\* Faulty variant: the cursor yields the first child only.
query_first_child(tbl, node) ==
    LET below(r) == r.parent = node
        rows == SelectSeq(tbl, below)
    IN  IF rows = <<>> THEN <<>> ELSE <<rows[1].node>>

\* SELECT node FROM t WHERE parent = ? (lines 137-139): the ids the cursor yields.
query_children(tbl, node) ==
    LET below(r) == r.parent = node
        rows == SelectSeq(tbl, below)
    IN  [i \in DOMAIN rows |-> rows[i].node]

\* One query sent to the store: the row of a node, the cursor over its
\* children, or one advance of that cursor.
Fetch(kind, node) == [kind |-> kind, node |-> node]

Ok(value, log) == [kind |-> "ok", value |-> value, log |-> log]

Err(error, log) == [kind |-> "err", error |-> error, log |-> log]

\* Faulty variant: only a listed node is retained.
retain_listed(is_specified_leaf, children, keep_node) == is_specified_leaf

\* The decision of lines 150-159.
retain(is_specified_leaf, children, keep_node) ==
    IF is_specified_leaf /\ children = <<>> THEN TRUE
    ELSE IF keep_node THEN TRUE
    ELSE FALSE

\* build_pruned_tree (lines 120-160). log holds the queries sent so far, and
\* the query that is number fail_at fails; every `?` returns the error.
RECURSIVE build_pruned_tree(_, _, _, _, _)

\* Faulty variant: the loop takes a child that failed for one that is not
\* retained, and goes on.
RECURSIVE for_child_result_lenient(_, _, _, _, _, _, _)
for_child_result_lenient(tbl, ids, i, leafs, current_node, log, fail_at) ==
    IF i > Len(ids) THEN Ok(current_node, log)
    ELSE LET stepped == Append(log, Fetch("next", current_node.node))
             child == build_pruned_tree(tbl, ids[i], leafs, stepped, fail_at)
         IN  for_child_result_lenient(tbl, ids, i + 1, leafs,
                 IF child.kind = "ok" /\ child.value.some
                 THEN [current_node EXCEPT !.children = Append(@, child.value.value)]
                 ELSE current_node,
                 child.log, fail_at)

\* Faulty variant: every child is built twice, and the second tree is taken.
RECURSIVE for_child_result_twice(_, _, _, _, _, _, _)
for_child_result_twice(tbl, ids, i, leafs, current_node, log, fail_at) ==
    IF i > Len(ids) THEN Ok(current_node, log)
    ELSE LET stepped == Append(log, Fetch("next", current_node.node))
             first == build_pruned_tree(tbl, ids[i], leafs, stepped, fail_at)
             child == build_pruned_tree(tbl, ids[i], leafs, first.log, fail_at)
         IN  IF Len(stepped) = fail_at THEN Err("storage", stepped)
             ELSE IF first.kind = "err" THEN first
             ELSE IF child.kind = "err" THEN child
             ELSE for_child_result_twice(tbl, ids, i + 1, leafs,
                      IF child.value.some
                      THEN [current_node EXCEPT !.children = Append(@, child.value.value)]
                      ELSE current_node,
                      child.log, fail_at)

\* Its loop over the cursor (lines 141-148), from the i-th child on.
RECURSIVE for_child_result(_, _, _, _, _, _, _)
for_child_result(tbl, ids, i, leafs, current_node, log, fail_at) ==
    IF i > Len(ids) THEN Ok(current_node, log)
    ELSE LET stepped == Append(log, Fetch("next", current_node.node))
         IN  IF Len(stepped) = fail_at THEN Err("storage", stepped)
             ELSE LET child == build_pruned_tree(tbl, ids[i], leafs, stepped, fail_at)
                  IN  IF child.kind = "err" THEN child
                      ELSE for_child_result(tbl, ids, i + 1, leafs,
                               IF child.value.some
                               THEN [current_node EXCEPT
                                        !.children = Append(@, child.value.value)]
                               ELSE current_node,
                               child.log, fail_at)

build_pruned_tree(tbl, node, leafs, log, fail_at) ==
    LET asked == Append(log, Fetch("row", node))
        rows == query_row(tbl, node)
    IN  IF Len(asked) = fail_at THEN Err("storage", asked)
        ELSE IF rows = <<>> THEN Err("QueryReturnedNoRows", asked)
        ELSE LET is_specified_leaf == node \in Range(leafs)
                 opened == Append(asked, Fetch("children", node))
             IN  IF Len(opened) = fail_at THEN Err("storage", opened)
                 ELSE LET looped == for_child_result(tbl, query_children(tbl, node), 1,
                                        leafs, from_row(rows[1]), opened, fail_at)
                      IN  IF looped.kind = "err" THEN looped
                          \* keep_node is set exactly when a child is pushed
                          ELSE IF retain(is_specified_leaf, looped.value.children,
                                         looped.value.children # <<>>)
                               THEN Ok(Some(looped.value), looped.log)
                               ELSE Ok(None, looped.log)

\* Faulty variant: keep_node starts as false, as it does in build_pruned_tree.
keep_node_unlisted(contains, children) == children # <<>>

\* keep_node at the end of _build_pruned_tree (lines 104-112): it starts as
\* leaf_nodes.contains(&node) and is set when a child is pushed.
keep_node(contains, children) == contains \/ children # <<>>

\* _build_pruned_tree (lines 85-119); the children are built by
\* build_pruned_tree (line 108).
_build_pruned_tree(tbl, node, leafs, log, fail_at) ==
    LET asked == Append(log, Fetch("row", node))
        rows == query_row(tbl, node)
    IN  IF Len(asked) = fail_at THEN Err("storage", asked)
        ELSE IF rows = <<>> THEN Err("QueryReturnedNoRows", asked)
        ELSE LET opened == Append(asked, Fetch("children", node))
             IN  IF Len(opened) = fail_at THEN Err("storage", opened)
                 ELSE LET looped == for_child_result(tbl, query_children(tbl, node), 1,
                                        leafs, from_row(rows[1]), opened, fail_at)
                      IN  IF looped.kind = "err" THEN looped
                          ELSE IF keep_node(node \in Range(leafs), looped.value.children)
                               THEN Ok(Some(looped.value), looped.log)
                               ELSE Ok(None, looped.log)

(***************************** the tables and the calls *********************)
\* What a row carries besides its id and its parent: a name with a space and
\* a ';', a species rank with a space and a ';', a rank that is no species
\* rank, a rank too short to be one; no rank (NULL); lengths and bootstraps
\* that are zero and not.
NodePayloads ==
    << [name |-> <<"a", " ", "b", ";", "c">>, rank |-> None,
        length |-> 0, bootstrap |-> 0],
       [name |-> <<"G", "1">>, rank |-> Some(<<"s", "_", "_", "E", " ", "c", ";", "d">>),
        length |-> 500000, bootstrap |-> 0],
       [name |-> <<"n">>, rank |-> Some(<<"g", "_", "_", "X">>),
        length |-> 0, bootstrap |-> 95],
       [name |-> <<"m", ";">>, rank |-> Some(<<"s", "_">>),
        length |-> 1250000, bootstrap |-> 100] >>

\* The k-th id on the way up from id, 0 once above a root.
RECURSIVE Climb(_, _, _)
Climb(par, id, k) ==
    IF k = 0 \/ id = 0 THEN id ELSE Climb(par, par[id], k - 1)

\* The tables of n rows that parse_tree and insert_nodes store: ids 1..n,
\* unique (db.rs: node INTEGER NOT NULL UNIQUE), parent 0 at a root, no cycle;
\* the store returns the rows in an order that is not the order of the ids.
TablesOfSize(n) ==
    {[i \in 1..n |->
        LET id == n + 1 - i
            payload == NodePayloads[((id + shift) % Len(NodePayloads)) + 1]
        IN  [node |-> id, parent |-> par[id], name |-> payload.name,
             length |-> payload.length, bootstrap |-> payload.bootstrap,
             rank |-> payload.rank]] :
        par \in {f \in [1..n -> 0..n] : \A id \in 1..n : Climb(f, id, n) = 0},
        shift \in 0..(Len(NodePayloads) - 1)}

Tables == UNION {TablesOfSize(n) : n \in 0..MaxRows}

\* The members of a set of numbers, ascending.
RECURSIVE Sorted(_)
Sorted(S) ==
    IF S = {} THEN <<>>
    ELSE LET least == CHOOSE x \in S : \A y \in S : x <= y
         IN  <<least>> \o Sorted(S \ {least})

\* The leaf lists a caller hands over, and the rank lists it asks for.
LeafLists == {Sorted(S) : S \in SUBSET (1..MaxRows)}

RankLists == SeqsUpTo({NodePayloads[2].rank.value, NodePayloads[3].rank.value}, 1)

\* No Taxonomy was built.
TaxoIdle ==
    /\ taxonomy = NoTaxonomy
    /\ pruned = NoTaxonomy
    /\ newick = NoNewick
    /\ op = "none"
    /\ input = NoTaxonomy
    /\ args = <<>>

TreeInit ==
    /\ TaxoIdle
    /\ table \in Tables
    /\ leaf_nodes = <<>>
    /\ call = NoCall
    /\ outcome = NoOutcome
    /\ fetches = <<>>
    /\ buffer = <<>>
    /\ tree_op = "new"
    /\ GenIdle
    /\ NcbiIdle
    /\ RunIdle

\* get_leaf_nodes_by_rank (lines 63-83).
GetLeafNodesByRank(ranks) ==
    /\ tree_op = "new"
    /\ leaf_nodes' = get_leaf_nodes_by_rank(table, ranks)
    /\ tree_op' = "get_leaf_nodes_by_rank"
    /\ UNCHANGED <<table, call, outcome, fetches, buffer>>
    /\ UNCHANGED <<taxoVars, genVars, ncbiVars, runVars>>

\* build_pruned_tree (lines 120-160) called on a node with the leaf list in
\* hand, or with one the caller made; any one of its queries may fail.
BuildPrunedTree(node, leafs) ==
    /\ tree_op \in {"new", "get_leaf_nodes_by_rank"}
    /\ tree_op = "get_leaf_nodes_by_rank" => leafs = leaf_nodes
    /\ \E fail_at \in 0..Len(build_pruned_tree(table, node, leafs, <<>>, 0).log) :
          LET built == build_pruned_tree(table, node, leafs, <<>>, fail_at)
          IN  /\ call' = [node |-> node, fail_at |-> fail_at]
              /\ outcome' = IF built.kind = "ok"
                            THEN [kind |-> "ok", value |-> built.value]
                            ELSE [kind |-> "err", error |-> built.error]
              /\ fetches' = built.log
    /\ leaf_nodes' = leafs
    /\ tree_op' = "build_pruned_tree"
    /\ UNCHANGED <<table, buffer>>
    /\ UNCHANGED <<taxoVars, genVars, ncbiVars, runVars>>

\* _build_pruned_tree (lines 85-119) called as build_pruned_tree is.
_BuildPrunedTree(node, leafs) ==
    /\ tree_op \in {"new", "get_leaf_nodes_by_rank"}
    /\ tree_op = "get_leaf_nodes_by_rank" => leafs = leaf_nodes
    /\ \E fail_at \in 0..Len(_build_pruned_tree(table, node, leafs, <<>>, 0).log) :
          LET built == _build_pruned_tree(table, node, leafs, <<>>, fail_at)
          IN  /\ call' = [node |-> node, fail_at |-> fail_at]
              /\ outcome' = IF built.kind = "ok"
                            THEN [kind |-> "ok", value |-> built.value]
                            ELSE [kind |-> "err", error |-> built.error]
              /\ fetches' = built.log
    /\ leaf_nodes' = leafs
    /\ tree_op' = "_build_pruned_tree"
    /\ UNCHANGED <<table, buffer>>
    /\ UNCHANGED <<taxoVars, genVars, ncbiVars, runVars>>

\* write_node_to_newick (lines 29-61) on the tree that was built.
WriteNodeToNewick ==
    /\ tree_op = "build_pruned_tree"
    /\ outcome.kind = "ok"
    /\ outcome.value.some
    /\ buffer' = write_node_to_newick(outcome.value.value, buffer)
    /\ tree_op' = "write_node_to_newick"
    /\ UNCHANGED <<table, leaf_nodes, call, outcome, fetches>>
    /\ UNCHANGED <<taxoVars, genVars, ncbiVars, runVars>>

TreeNext ==
    \/ \E ranks \in RankLists : GetLeafNodesByRank(ranks)
    \/ \E node \in 1..MaxRows, leafs \in LeafLists \cup {leaf_nodes} :
          BuildPrunedTree(node, leafs)
    \/ \E node \in 1..MaxRows, leafs \in LeafLists \cup {leaf_nodes} :
          _BuildPrunedTree(node, leafs)
    \/ WriteNodeToNewick

TreeSpec == TreeInit /\ [][TreeNext]_vars

(***************************** vocabulary of the tree properties ***********)
RowOf(tbl, id) == CHOOSE r \in Range(tbl) : r.node = id

Ids(tbl) == {r.node : r \in Range(tbl)}

\* The ids of the children of id, in the order of the rows of the table.
RECURSIVE ReturnedChildren(_, _)
ReturnedChildren(tbl, id) ==
    IF tbl = <<>> THEN <<>>
    ELSE IF Head(tbl).parent = id
         THEN <<Head(tbl).node>> \o ReturnedChildren(Tail(tbl), id)
         ELSE ReturnedChildren(Tail(tbl), id)

\* The k-th id on the way up from id in the table.
RECURSIVE Up(_, _, _)
Up(tbl, id, k) ==
    IF k = 0 \/ id \notin Ids(tbl) THEN id ELSE Up(tbl, RowOf(tbl, id).parent, k - 1)

\* The ids of the subtree of root: root, if it has a row, and all below it.
Under(tbl, root) ==
    {id \in Ids(tbl) : \E k \in 0..Len(tbl) : Up(tbl, id, k) = root}

\* The retention rule, read off the table: (a) listed and no child retained,
\* or (b) a child retained.
RECURSIVE Kept(_, _, _)
Kept(tbl, leafs, id) ==
    LET kept == {c \in Range(ReturnedChildren(tbl, id)) : Kept(tbl, leafs, c)}
    IN  \/ id \in Range(leafs) /\ kept = {}
        \/ kept # {}

\* The members of s that are in S, in the order of s.
RECURSIVE Only(_, _)
Only(s, S) ==
    IF s = <<>> THEN <<>>
    ELSE IF Head(s) \in S THEN <<Head(s)>> \o Only(Tail(s), S) ELSE Only(Tail(s), S)

\* Every Node of a nested tree.
RECURSIVE NodesOf(_)
NodesOf(node) ==
    {node} \cup UNION {NodesOf(node.children[i]) : i \in DOMAIN node.children}

ChildIds(node) == [i \in DOMAIN node.children |-> node.children[i].node]

\* The last call was build_pruned_tree and it returned Ok.
Built == tree_op = "build_pruned_tree" /\ outcome.kind = "ok"

\* The Nodes of the tree it returned: none when it returned None.
Returned == IF outcome.value.some THEN NodesOf(outcome.value.value) ELSE {}

\* The ids whose row it fetched.
Visited == {fetches[i].node : i \in {j \in DOMAIN fetches : fetches[j].kind = "row"}}

(***************************** C13 *****************************************)
\* C13: a node visited by build_pruned_tree is in the returned tree if and
\* only if (a) it is in leaf_nodes and none of its children was retained, or
\* (b) one of its children was retained; the children of a returned Node are
\* the retained ones among the children the store returned, in that order.
C13_RetentionRule ==
    Built =>
        /\ \A id \in Visited :
              (\E n \in Returned : n.node = id) <=> Kept(table, leaf_nodes, id)
        /\ \A n \in Returned :
              ChildIds(n) = Only(ReturnedChildren(table, n.node),
                                 {c \in Ids(table) : Kept(table, leaf_nodes, c)})

\* A listed node with a retained child, a listed childless one, and a child
\* that is dropped.
C13_Witness ==
    /\ Built
    /\ Len(table) = 3
    /\ ReturnedChildren(table, 1) = <<3, 2>>
    /\ call.node = 1
    /\ leaf_nodes = <<1, 3>>
    /\ outcome.value.some
    /\ ChildIds(outcome.value.value) = <<3>>
    /\ Visited = {1, 2, 3}

(***************************** C14 *****************************************)
\* The ids of the subtree of id that are in the leaf list.
Selected(tbl, leafs, id) == Under(tbl, id) \cap Range(leafs)

\* C14: on a table that is a forest, build_pruned_tree(root, leaf_nodes)
\* returns exactly the nodes under root that are in leaf_nodes or have a
\* descendant in it, each under its parent; every childless node of the
\* result is in leaf_nodes; the result is None exactly when no node of the
\* subtree of root is in leaf_nodes.
C14_PruneKeepsSelectedAndAncestors ==
    Built =>
        /\ {n.node : n \in Returned} =
               {id \in Under(table, call.node) : Selected(table, leaf_nodes, id) # {}}
        /\ \A n \in Returned :
              /\ \A i \in DOMAIN n.children : n.children[i].parent = n.node
              /\ n.children = <<>> => n.node \in Range(leaf_nodes)
        /\ ~outcome.value.some <=> Selected(table, leaf_nodes, call.node) = {}

\* A selected node under the root is kept with the root above it, and its
\* sibling, which is not selected, is dropped.
C14_Witness ==
    /\ Built
    /\ Under(table, 1) = {1, 2, 3}
    /\ RowOf(table, 2).parent = 1
    /\ RowOf(table, 3).parent = 1
    /\ call.node = 1
    /\ leaf_nodes = <<2>>
    /\ outcome.value.some
    /\ {n.node : n \in Returned} = {1, 2}

(***************************** C15 *****************************************)
\* C15: when a query of build_pruned_tree fails, or the row of the node it is
\* called on is not in the table, the call returns that error and no tree, and
\* the failed query is the last one it sent.
C15_FirstErrorPropagates ==
    tree_op = "build_pruned_tree" =>
        /\ call.fail_at > 0 =>
              /\ outcome = [kind |-> "err", error |-> "storage"]
              /\ Len(fetches) = call.fail_at
        /\ (call.fail_at = 0 /\ call.node \notin Ids(table)) =>
              /\ outcome = [kind |-> "err", error |-> "QueryReturnedNoRows"]
              /\ fetches = <<Fetch("row", call.node)>>
        /\ (call.fail_at = 0 /\ call.node \in Ids(table)) => outcome.kind = "ok"

\* The fetch of the row of a child fails after the subtree of its sibling
\* was built and retained.
C15_Witness ==
    /\ tree_op = "build_pruned_tree"
    /\ call.node = 1
    /\ call.fail_at > 0
    /\ outcome.kind = "err"
    /\ ReturnedChildren(table, 1) = <<3, 2>>
    /\ leaf_nodes = <<3>>
    /\ fetches[Len(fetches)] = Fetch("row", 2)

(***************************** C16 *****************************************)
\* The texts of a sequence, joined by ','.
RECURSIVE CommaJoined(_)
CommaJoined(texts) ==
    IF texts = <<>> THEN <<>>
    ELSE IF Len(texts) = 1 THEN texts[1]
    ELSE texts[1] \o <<",">> \o CommaJoined(Tail(texts))

\* The text of a nested node, by the rules of the format.
RECURSIVE Encoding(_)
Encoding(node) ==
    (IF node.children = <<>> THEN <<>>
     ELSE <<"(">> \o CommaJoined([i \in DOMAIN node.children |->
                                     Encoding(node.children[i])]) \o <<")">>)
    \o label(node)
    \o (IF node.length = 0 THEN <<>> ELSE <<":">> \o FormatFixed(node.length, 6))
    \o (IF node.bootstrap = 0 THEN <<>>
        ELSE <<"[">> \o FormatFixed(node.bootstrap, 2) \o <<"]">>)

\* The last call was write_node_to_newick, on the tree that was built and an
\* empty String.
Wrote == tree_op = "write_node_to_newick"

\* C16: write_node_to_newick appends, for every nested node, '(' and the
\* comma-joined texts of its children in order and ')' only when it has
\* children, then the label, then ':' and the length only when the length is
\* not 0, then '[' bootstrap ']' only when the bootstrap is not 0; a node
\* without children, length and bootstrap is written as its label alone, and
\* no ';' ends the text.
C16_NestedEncodingFormat ==
    Wrote =>
        LET node == outcome.value.value
        IN  /\ buffer = Encoding(node)
            /\ (node.children = <<>> /\ node.length = 0 /\ node.bootstrap = 0)
                   => buffer = label(node)
            /\ buffer # <<>> => buffer[Len(buffer)] # ";"

\* (a_b+c,m+:1.250000[1.00])n[0.95]: a node with two children, one written
\* as its label alone and one with a length and a bootstrap.
C16_Witness ==
    /\ Wrote
    /\ buffer =
        <<"(", "a", "_", "b", "+", "c", ",", "m", "+", ":", "1",
          ".", "2", "5", "0", "0", "0", "0", "[", "1", ".", "0",
          "0", "]", ")", "n", "[", "0", ".", "9", "5", "]">>

(***************************** C17 *****************************************)
\* The rank of a node is present and begins with s, _, _.
SpeciesRank(node) ==
    /\ node.rank.some
    /\ Len(node.rank.value) >= 3
    /\ node.rank.value[1] = "s"
    /\ node.rank.value[2] = "_"
    /\ node.rank.value[3] = "_"

\* s with '+' for every ';' and '_' for every space.
RECURSIVE Sanitized(_)
Sanitized(s) ==
    IF s = <<>> THEN <<>>
    ELSE <<CASE Head(s) = ";" -> "+" [] Head(s) = " " -> "_" [] OTHER -> Head(s)>>
         \o Sanitized(Tail(s))

\* C17: the label of every node written is its rank when the rank is present
\* and starts with "s__", and its name otherwise, with '+' for every ';' and
\* '_' for every space; the text written holds no ';' and no space.
C17_LabelChoiceAndSanitization ==
    Wrote =>
        /\ \A n \in NodesOf(outcome.value.value) :
              label(n) = Sanitized(IF SpeciesRank(n) THEN n.rank.value ELSE n.name)
        /\ ";" \notin Range(buffer)
        /\ " " \notin Range(buffer)

\* (s__E_c+d:0.500000)a_b+c: a node without rank named "a b;c" above a node
\* of rank "s__E c;d".
C17_Witness ==
    /\ Wrote
    /\ outcome.value.value.rank = None
    /\ Len(outcome.value.value.children) = 1
    /\ SpeciesRank(outcome.value.value.children[1])
    /\ buffer =
        <<"(", "s", "_", "_", "E", "_", "c", "+", "d", ":", "0",
          ".", "5", "0", "0", "0", "0", "0", ")", "a", "_", "b",
          "+", "c">>

(***************************** the classifier: src/src/generate.rs *********)
\* Tokens and the TEXT columns of the store are sequences of one-character
\* strings; the INTEGER column ncbi_taxid holds numbers.
MaxTokens == 3

\* line 79
valid_prefixes ==
    <<<<"c", "_", "_">>, <<"d", "_", "_">>, <<"f", "_", "_">>, <<"g", "_", "_">>,
      <<"o", "_", "_">>, <<"p", "_", "_">>, <<"s", "_", "_">>>>

AsciiDigits == {"0", "1", "2", "3", "4", "5", "6", "7", "8", "9"}

\* char::is_numeric: the decimal digits and the other numeric characters,
\* of which the model has the superscript two, written "^2".
is_numeric(c) == c \in AsciiDigits \cup {"^2"}

\* [A-Za-z], of which the model has these.
AsciiLetters == {"A", "C", "F", "G", "R", "S", "c", "d", "f", "g", "o", "p", "s", "x"}

\* The end of the longest run of digits of item that starts at j: the
\* position after it (\d+ is greedy).
RECURSIVE digits_end(_, _)
digits_end(item, j) ==
    IF j <= Len(item) /\ item[j] \in AsciiDigits THEN digits_end(item, j + 1) ELSE j

\* [A-Za-z]{3}_(\d+\.\d+) matched at position j: the capture, or None.
match_body(item, j) ==
    IF /\ j + 3 <= Len(item)
       /\ \A k \in j..(j + 2) : item[k] \in AsciiLetters
       /\ item[j + 3] = "_"
    THEN LET dot == digits_end(item, j + 4)
             end == digits_end(item, dot + 1)
         IN  IF dot > j + 4 /\ dot <= Len(item) /\ item[dot] = "." /\ end > dot + 1
             THEN Some(SubSeq(item, j + 4, end - 1))
             ELSE None
    ELSE None

\* (?:[A-Za-z]{2}_)?[A-Za-z]{3}_(\d+\.\d+) matched at position i: with the
\* optional group first, then without it.
match_at(item, i) ==
    LET grouped == IF /\ i + 2 <= Len(item)
                      /\ item[i] \in AsciiLetters
                      /\ item[i + 1] \in AsciiLetters
                      /\ item[i + 2] = "_"
                   THEN match_body(item, i + 3)
                   ELSE None
    IN  IF grouped.some THEN grouped ELSE match_body(item, i)

\* Faulty variant: the whole token is kept.
captures_whole(item, i) ==
    IF \E j \in i..Len(item) : match_at(item, j).some THEN Some(item) ELSE None

\* Regex::captures (lines 90-92): group 1 of the leftmost match from i on.
RECURSIVE captures(_, _)
captures(item, i) ==
    IF i > Len(item) THEN None
    ELSE IF match_at(item, i).some THEN match_at(item, i)
    ELSE captures(item, i + 1)

\* Faulty variant: a token of no shape is passed over.
RECURSIVE classify_skipping(_, _, _)
classify_skipping(items, i, sorted) ==
    IF i > Len(items) THEN [kind |-> "ok", classes |-> sorted]
    ELSE LET item == items[i]
         IN  IF \E k \in DOMAIN valid_prefixes : starts_with(item, valid_prefixes[k])
             THEN classify_skipping(items, i + 1,
                      [sorted EXCEPT !.species = Append(@, item)])
             ELSE IF \A k \in DOMAIN item : is_numeric(item[k])
             THEN classify_skipping(items, i + 1,
                      [sorted EXCEPT !.ncbi_taxids = Append(@, item)])
             ELSE IF captures(item, 1).some
             THEN classify_skipping(items, i + 1,
                      [sorted EXCEPT !.ncbi_ids = Append(@, captures(item, 1).value)])
             ELSE classify_skipping(items, i + 1, sorted)

\* The loop of lines 82-102, from the i-th token on.
RECURSIVE classify(_, _, _)
classify(items, i, sorted) ==
    IF i > Len(items) THEN [kind |-> "ok", classes |-> sorted]
    ELSE LET item == items[i]
         IN  IF \E k \in DOMAIN valid_prefixes : starts_with(item, valid_prefixes[k])
             THEN classify(items, i + 1,
                      [sorted EXCEPT !.species = Append(@, item)])
             ELSE IF \A k \in DOMAIN item : is_numeric(item[k])
             THEN classify(items, i + 1,
                      [sorted EXCEPT !.ncbi_taxids = Append(@, item)])
             ELSE IF captures(item, 1).some
             THEN classify(items, i + 1,
                      [sorted EXCEPT !.ncbi_ids = Append(@, captures(item, 1).value)])
             ELSE [kind |-> "err", classes |-> sorted, item |-> item]

\* The number a text is compared as with an INTEGER column: its value when
\* it is a run of decimal digits, and no number otherwise.
RECURSIVE digits_value(_)
digits_value(text) ==
    IF text = <<>> THEN 0
    ELSE 10 * digits_value(SubSeq(text, 1, Len(text) - 1))
         + (CHOOSE d \in 0..9 : ToString(d) = text[Len(text)])

sql_integer(text) ==
    IF text # <<>> /\ \A k \in DOMAIN text : text[k] \in AsciiDigits
    THEN Some(digits_value(text))
    ELSE None

\* SELECT node FROM genome_taxonomy WHERE node IN (species), lines 108-121.
select_node(db, species) ==
    LET asked(r) == r.node \in Range(species)
        found == SelectSeq(db, asked)
    IN  [i \in DOMAIN found |-> found[i].node]

\* A value of the INTEGER column ncbi_taxid (db.rs 16): batch_insert_taxonomy
\* binds an Option<i64> (db.rs 106), so it is NULL or an integer.
Null == [type |-> "null"]

Integer(n) == [type |-> "integer", value |-> n]

\* row.get::<_, String>: Ok for a text value, Err(InvalidColumnType) for any other.
get_String(value) == IF value.type = "text" THEN Some(value.value) ELSE None

\* SELECT ncbi_taxid, parent ... WHERE ncbi_taxid IN (ncbi_taxids), lines
\* 137-154: the rows whose closure returned Ok; filter_map(Result::ok) drops
\* the others.
select_ncbi_taxid(db, ncbi_taxids) ==
    LET asked(r) == /\ r.ncbi_taxid.type = "integer"
                    /\ \E k \in DOMAIN ncbi_taxids :
                          sql_integer(ncbi_taxids[k]) = Some(r.ncbi_taxid.value)
        found == SelectSeq(db, asked)
        read(r) == get_String(r.ncbi_taxid).some
        got == SelectSeq(found, read)
    IN  [i \in DOMAIN got |-> <<get_String(got[i].ncbi_taxid).value, got[i].parent>>]

\* SELECT ncbi_id, parent ... WHERE ncbi_id IN (ncbi_ids), lines 170-187.
select_ncbi_id(db, ncbi_ids) ==
    LET asked(r) == r.ncbi_id \in Range(ncbi_ids)
        found == SelectSeq(db, asked)
    IN  [i \in DOMAIN found |-> <<found[i].ncbi_id, found[i].parent>>]

\* The members of s that are not in S, in the order of s (the filters of
\* lines 127, 159 and 192).
missing_from(s, S) ==
    LET absent(x) == x \notin S
    IN  SelectSeq(s, absent)

Firsts(rows) == {rows[i][1] : i \in DOMAIN rows}

Seconds(rows) == [i \in DOMAIN rows |-> rows[i][2]]

\* One batched lookup sent to the store.
Lookup(column, items) == [column |-> column, items |-> items]

\* The label batch, lines 107-133.
label_batch(db, sorted, acc) ==
    IF sorted.species = <<>> THEN acc
    ELSE LET rows == select_node(db, sorted.species)
             sent == Append(acc.queries, Lookup("node", sorted.species))
         IN  IF Len(rows) # Len(sorted.species)
             THEN [acc EXCEPT !.queries = sent,
                              !.not_found = @ \o missing_from(sorted.species, Range(rows))]
             ELSE [acc EXCEPT !.queries = sent, !.results = @ \o sorted.species]

\* The taxid batch, lines 136-166.
taxid_batch(db, sorted, acc) ==
    IF sorted.ncbi_taxids = <<>> THEN acc
    ELSE LET rows == select_ncbi_taxid(db, sorted.ncbi_taxids)
             sent == Append(acc.queries, Lookup("ncbi_taxid", sorted.ncbi_taxids))
         IN  IF Len(rows) # Len(sorted.ncbi_taxids)
             THEN [acc EXCEPT !.queries = sent,
                              !.not_found = @ \o missing_from(sorted.ncbi_ids, Firsts(rows))]
             ELSE [acc EXCEPT !.queries = sent, !.results = @ \o Seconds(rows)]

\* The accession batch, lines 169-200.
accession_batch(db, sorted, acc) ==
    IF sorted.ncbi_ids = <<>> THEN acc
    ELSE LET rows == select_ncbi_id(db, sorted.ncbi_ids)
             sent == Append(acc.queries, Lookup("ncbi_id", sorted.ncbi_ids))
         IN  IF Len(rows) # Len(sorted.ncbi_ids)
             THEN [acc EXCEPT !.queries = sent,
                              !.not_found = @ \o missing_from(sorted.ncbi_ids, Firsts(rows))]
             ELSE [acc EXCEPT !.queries = sent, !.results = @ \o Seconds(rows)]

\* process_data (lines 73-217): what it returns, the lookups it sent, and
\* its three lists.
process_data(items, db) ==
    LET sorted == classify(items, 1, NoClasses)
    IN  IF sorted.kind = "err"
        THEN [result |-> [kind |-> "err", error |-> "Failed to process item",
                          item |-> sorted.item],
              queries |-> <<>>, classes |-> sorted.classes]
        ELSE LET acc == accession_batch(db, sorted.classes,
                            taxid_batch(db, sorted.classes,
                                label_batch(db, sorted.classes,
                                    [not_found |-> <<>>, results |-> <<>>,
                                     queries |-> <<>>])))
             IN  [result |-> IF acc.not_found # <<>>
                             THEN [kind |-> "err", error |-> "Not found in the database",
                                   missing |-> acc.not_found]
                             ELSE [kind |-> "ok", value |-> acc.results],
                  queries |-> acc.queries, classes |-> sorted.classes]

(***************************** the store and the call ***********************)
\* The part of a text after its last '_' (gtdb.rs 353: split('_').last()).
RECURSIVE after_last(_, _)
after_last(text, sep) ==
    IF sep \notin Range(text) THEN text
    ELSE after_last(Tail(text), sep)

\* The lines of a metadata file: accession, gtdb_taxonomy (its last two
\* parts), ncbi_taxid. Two accessions share a suffix, two share a taxid.
MetadataLines ==
    << [accession |-> <<"R", "S", "_", "G", "C", "F", "_", "1", ".", "2">>,
        taxonomy |-> <<<<"g", "_", "_", "B">>, <<"s", "_", "_", "A">>>>,
        ncbi_taxid |-> 96],
       [accession |-> <<"G", "B", "_", "G", "C", "A", "_", "1", ".", "2">>,
        taxonomy |-> <<<<"g", "_", "_", "B">>, <<"s", "_", "_", "C">>>>,
        ncbi_taxid |-> 7],
       [accession |-> <<"G", "B", "_", "G", "C", "A", "_", "3", ".", "4">>,
        taxonomy |-> <<<<"g", "_", "_", "B">>, <<"s", "_", "_", "A">>>>,
        ncbi_taxid |-> 96] >>

\* INSERT OR IGNORE INTO genome_taxonomy (db.rs 104-133); node is UNIQUE
\* (db.rs 14), so a row whose node is stored already is ignored.
batch_insert_taxonomy(db, row) ==
    IF \E i \in DOMAIN db : db[i].node = row.node THEN db ELSE Append(db, row)

\* The rows parse_metadata makes of one line (gtdb.rs 325-362): one for each
\* part of the taxonomy, then one for the accession.
RECURSIVE insert_parts(_, _, _)
insert_parts(db, parts, i) ==
    IF i > Len(parts) THEN db
    ELSE insert_parts(
             batch_insert_taxonomy(db,
                 [node |-> parts[i],
                  parent |-> IF i > 1 THEN parts[i - 1] ELSE <<"r", "o", "o", "t">>,
                  ncbi_taxid |-> Null, ncbi_id |-> <<>>]),
             parts, i + 1)

insert_line(db, line) ==
    batch_insert_taxonomy(insert_parts(db, line.taxonomy, 1),
        [node |-> line.accession,
         parent |-> line.taxonomy[Len(line.taxonomy)],
         ncbi_taxid |-> Integer(line.ncbi_taxid),
         ncbi_id |-> after_last(line.accession, "_")])

\* parse_metadata (gtdb.rs 276-377) on the lines whose numbers are in chosen.
RECURSIVE parse_metadata(_, _, _)
parse_metadata(db, chosen, i) ==
    IF i > Len(MetadataLines) THEN db
    ELSE parse_metadata(IF i \in chosen THEN insert_line(db, MetadataLines[i]) ELSE db,
                        chosen, i + 1)

Databases == {parse_metadata(<<>>, chosen, 1) : chosen \in SUBSET DOMAIN MetadataLines}

\* Tokens of every shape: labels, taxids, accessions with and without the
\* two-letter group, a match that starts inside the token, tokens of no
\* shape, the empty token and a numeric character that is no decimal digit.
Tokens ==
    {<<"s", "_", "_", "A">>,
     <<"g", "_", "_", "Z">>,
     <<"9", "6">>,
     <<"5">>,
     <<"G", "C", "F", "_", "1", ".", "2">>,
     <<"R", "S", "_", "G", "C", "F", "_", "1", ".", "2">>,
     <<"G", "C", "A", "_", "3", ".", "4">>,
     <<"1", "G", "C", "F", "_", "1", ".", "2">>,
     <<"?", "?", "?">>,
     <<"G", "C", "F", "_", "1", "2">>,
     <<>>,
     <<"^2">>}

GenInit ==
    /\ TaxoIdle
    /\ TreeIdle
    /\ NcbiIdle
    /\ RunIdle
    /\ genome_taxonomy \in Databases
    /\ data = <<>>
    /\ classes = NoClasses
    /\ resolved = NoOutcome
    /\ queries = <<>>

\* process_data (lines 73-217) on a list of tokens.
ProcessData(items) ==
    /\ resolved = NoOutcome
    /\ LET done == process_data(items, genome_taxonomy)
       IN  /\ resolved' = done.result
           /\ queries' = done.queries
           /\ classes' = done.classes
    /\ data' = items
    /\ UNCHANGED genome_taxonomy
    /\ UNCHANGED <<taxoVars, treeVars, ncbiVars, runVars>>

GenNext == \E items \in SeqsUpTo(Tokens, MaxTokens) : ProcessData(items)

GenSpec == GenInit /\ [][GenNext]_vars

(***************************** vocabulary of the classifier properties *****)
\* process_data was called.
Processed == resolved # NoOutcome

RankCodes == {"d", "p", "c", "o", "f", "g", "s"}

IsLabel(token) ==
    Len(token) >= 3 /\ token[1] \in RankCodes /\ token[2] = "_" /\ token[3] = "_"

IsTaxid(token) == ~IsLabel(token) /\ \A k \in DOMAIN token : is_numeric(token[k])

\* The places <<j, d, e>> where token reads three letters at j, '_', the
\* digits up to d - 1, '.' at d, and the digits up to e, with no digit after.
Accessions(token) ==
    {place \in (1..Len(token)) \X (1..Len(token)) \X (1..Len(token)) :
        LET j == place[1]
            d == place[2]
            e == place[3]
        IN  /\ j + 4 < d /\ d < e
            /\ \A k \in j..(j + 2) : token[k] \in AsciiLetters
            /\ token[j + 3] = "_"
            /\ \A k \in (j + 4)..(d - 1) : token[k] \in AsciiDigits
            /\ token[d] = "."
            /\ \A k \in (d + 1)..e : token[k] \in AsciiDigits
            /\ e < Len(token) => token[e + 1] \notin AsciiDigits}

IsAccession(token) == ~IsLabel(token) /\ ~IsTaxid(token) /\ Accessions(token) # {}

\* The digits-dot-digits of the leftmost such place.
Suffix(token) ==
    LET first == CHOOSE place \in Accessions(token) :
                     \A other \in Accessions(token) : place[1] <= other[1]
    IN  SubSeq(token, first[1] + 4, first[3])

Malformed(token) == ~IsLabel(token) /\ ~IsTaxid(token) /\ ~IsAccession(token)

\* The tokens of tokens that satisfy Is, in order.
Those(tokens, Is(_)) == SelectSeq(tokens, Is)

(***************************** C18 *****************************************)
\* C18: when every token has a shape, process_data puts each token in
\* exactly one of its three lists: a token that starts with a rank-code
\* prefix in species, whole; otherwise a token of numeric characters in
\* ncbi_taxids; otherwise a token that matches the accession pattern in
\* ncbi_ids, as its digits-dot-digits suffix; each list in input order.
C18_ClassifyOrderAndCapture ==
    (Processed /\ \A i \in DOMAIN data : ~Malformed(data[i])) =>
        /\ classes.species = Those(data, IsLabel)
        /\ classes.ncbi_taxids = Those(data, IsTaxid)
        /\ classes.ncbi_ids = [i \in DOMAIN Those(data, IsAccession) |->
                                  Suffix(Those(data, IsAccession)[i])]
        /\ Len(classes.species) + Len(classes.ncbi_taxids) + Len(classes.ncbi_ids)
               = Len(data)

\* GCF_1.2, 96 and s__A: one token of each class, the accession kept as 1.2.
C18_Witness ==
    /\ Processed
    /\ data = <<<<"G", "C", "F", "_", "1", ".", "2">>, <<"9", "6">>, <<"s", "_", "_", "A">>>>
    /\ classes = [species |-> <<<<"s", "_", "_", "A">>>>, ncbi_taxids |-> <<<<"9", "6">>>>, ncbi_ids |-> <<<<"1", ".", "2">>>>]

(***************************** C19 *****************************************)
\* C19: when a token has none of the three shapes, process_data returns the
\* error that names the first such token, returns no list, and sends no
\* lookup to the store, whatever the other tokens are.
C19_MalformedTokenFailsBeforeLookup ==
    (Processed /\ \E i \in DOMAIN data : Malformed(data[i])) =>
        /\ resolved = [kind |-> "err", error |-> "Failed to process item",
                       item |-> Head(Those(data, Malformed))]
        /\ queries = <<>>

\* s__A, ??? and GCF_12 on a store that holds s__A: two tokens of no shape
\* after a label that the store would resolve.
C19_Witness ==
    /\ Processed
    /\ data = <<<<"s", "_", "_", "A">>, <<"?", "?", "?">>, <<"G", "C", "F", "_", "1", "2">>>>
    /\ \E i \in DOMAIN genome_taxonomy : genome_taxonomy[i].node = <<"s", "_", "_", "A">>
    /\ resolved.kind = "err"
    /\ resolved.item = <<"?", "?", "?">>

(***************************** C20 *****************************************)
\* What the store holds.
LabelStored(token) == \E i \in DOMAIN genome_taxonomy : genome_taxonomy[i].node = token

TaxidStored(token) ==
    \E i \in DOMAIN genome_taxonomy :
        /\ genome_taxonomy[i].ncbi_taxid.type = "integer"
        /\ sql_integer(token) = Some(genome_taxonomy[i].ncbi_taxid.value)

SuffixStored(suffix) ==
    \E i \in DOMAIN genome_taxonomy : genome_taxonomy[i].ncbi_id = suffix

\* The rows of the store that answer each batch.
LabelRows ==
    {i \in DOMAIN genome_taxonomy : genome_taxonomy[i].node \in Range(classes.species)}

TaxidRows ==
    {i \in DOMAIN genome_taxonomy :
        /\ genome_taxonomy[i].ncbi_taxid.type = "integer"
        /\ \E k \in DOMAIN classes.ncbi_taxids :
              sql_integer(classes.ncbi_taxids[k]) = Some(genome_taxonomy[i].ncbi_taxid.value)}

SuffixRows ==
    {i \in DOMAIN genome_taxonomy : genome_taxonomy[i].ncbi_id \in Range(classes.ncbi_ids)}

\* A batch that was asked has another number of rows than of items.
Shortfall ==
    \/ classes.species # <<>> /\ Cardinality(LabelRows) # Len(classes.species)
    \/ classes.ncbi_taxids # <<>> /\ Cardinality(TaxidRows) # Len(classes.ncbi_taxids)
    \/ classes.ncbi_ids # <<>> /\ Cardinality(SuffixRows) # Len(classes.ncbi_ids)

\* The requested items that the store does not hold.
MissingItems ==
    {classes.species[k] : k \in {j \in DOMAIN classes.species :
                                    ~LabelStored(classes.species[j])}}
    \cup {classes.ncbi_taxids[k] : k \in {j \in DOMAIN classes.ncbi_taxids :
                                    ~TaxidStored(classes.ncbi_taxids[j])}}
    \cup {classes.ncbi_ids[k] : k \in {j \in DOMAIN classes.ncbi_ids :
                                    ~SuffixStored(classes.ncbi_ids[j])}}

\* C20: when a batch has another number of rows than of requested items,
\* process_data returns the not-found error that lists exactly the requested
\* items the store does not hold, and never Ok.
C20_ShortfallIsNotFound ==
    (Processed /\ Shortfall /\ \A i \in DOMAIN data : ~Malformed(data[i])) =>
        /\ resolved.kind = "err"
        /\ resolved.error = "Not found in the database"
        /\ Range(resolved.missing) = MissingItems

(***************************** C21 *****************************************)
\* The lookups of the classes that are not empty: labels, taxids, accessions.
ExpectedLookups ==
    (IF classes.species # <<>> THEN <<Lookup("node", classes.species)>> ELSE <<>>)
    \o (IF classes.ncbi_taxids # <<>>
        THEN <<Lookup("ncbi_taxid", classes.ncbi_taxids)>> ELSE <<>>)
    \o (IF classes.ncbi_ids # <<>> THEN <<Lookup("ncbi_id", classes.ncbi_ids)>> ELSE <<>>)

\* C21: process_data sends the lookup of every class that is not empty, in
\* the order labels, taxids, accessions, whatever an earlier batch lacked;
\* when the store lacks a requested item of any batch, it returns one
\* not-found error that lists the missing items of all batches, and no list.
C21_AllBatchesThenCombinedNotFound ==
    (Processed /\ \A i \in DOMAIN data : ~Malformed(data[i])) =>
        /\ queries = ExpectedLookups
        /\ MissingItems # {} =>
              /\ resolved.kind = "err"
              /\ resolved.error = "Not found in the database"
              /\ Range(resolved.missing) = MissingItems

(***************************** C22 *****************************************)
\* The parent labels of the rows that hold a taxid, and of those that hold a
\* suffix.
TaxidParents(token) ==
    {genome_taxonomy[i].parent : i \in {j \in DOMAIN genome_taxonomy :
        /\ genome_taxonomy[j].ncbi_taxid.type = "integer"
        /\ sql_integer(token) = Some(genome_taxonomy[j].ncbi_taxid.value)}}

SuffixParents(suffix) ==
    {genome_taxonomy[i].parent : i \in {j \in DOMAIN genome_taxonomy :
        genome_taxonomy[j].ncbi_id = suffix}}

\* C22: when the store holds every requested label, taxid and accession,
\* process_data returns Ok with a list that holds every requested label and
\* the parent label of the rows of every taxid and every accession, an entry
\* for every token, also when a token is given twice.
C22_FullSuccessReturnsEveryEntry ==
    (Processed /\ MissingItems = {} /\ \A i \in DOMAIN data : ~Malformed(data[i])) =>
        /\ resolved.kind = "ok"
        /\ Range(classes.species) \subseteq Range(resolved.value)
        /\ \A k \in DOMAIN classes.ncbi_taxids :
              TaxidParents(classes.ncbi_taxids[k]) \subseteq Range(resolved.value)
        /\ \A k \in DOMAIN classes.ncbi_ids :
              SuffixParents(classes.ncbi_ids[k]) \subseteq Range(resolved.value)
        /\ Len(resolved.value) >= Len(data)

(***************************** the loader: src/src/ncbi.rs ******************)
\* A line is the sequence of the parts it splits into. An index of the code,
\* counted from 0, is a position counted from 1 here: the line index of
\* enumerate() is the number of the line, and unwrap_or(0) is position 1.
MaxLines == 3

\* HashMap::insert: the entry of key is replaced or added.
insert(map, key, value) ==
    [k \in DOMAIN map \cup {key} |-> IF k = key THEN value ELSE map[k]]

\* The loop over nodes.dmp (lines 26-41), from the line of number index on.
RECURSIVE read_nodes(_, _, _)
read_nodes(lines, index, acc) ==
    IF index > Len(lines) THEN acc
    ELSE LET parts == lines[index]
         IN  IF Len(parts) >= 3
             THEN read_nodes(lines, index + 1,
                      [taxid_to_index |-> insert(acc.taxid_to_index, parts[1], index),
                       taxid_vec |-> Append(acc.taxid_vec, parts[1]),
                       parent_taxid_vec |-> Append(acc.parent_taxid_vec, parts[2]),
                       rank_vec |-> Append(acc.rank_vec, parts[3]),
                       name_vec |-> Append(acc.name_vec, ""),
                       parent_distances |-> Append(acc.parent_distances, 2)])
             ELSE read_nodes(lines, index + 1, acc)

\* The loop over names.dmp (lines 44-53), from the i-th line on: the names,
\* or a panic when name_vec is indexed past its end.
RECURSIVE read_names(_, _, _, _)
read_names(lines, i, map, name_vec) ==
    IF i > Len(lines) THEN [kind |-> "ok", name_vec |-> name_vec]
    ELSE LET parts == lines[i]
         IN  IF Len(parts) >= 7 /\ parts[7] = "scientific name" /\ parts[1] \in DOMAIN map
             THEN IF map[parts[1]] \in DOMAIN name_vec
                  THEN read_names(lines, i + 1, map,
                           [name_vec EXCEPT ![map[parts[1]]] = parts[3]])
                  ELSE [kind |-> "panic", name_vec |-> name_vec]
             ELSE read_names(lines, i + 1, map, name_vec)

\* load (lines 6-67): the five vectors, or a panic.
load(nodes, names) ==
    LET read == read_nodes(nodes, 1,
                    [taxid_to_index |-> EmptyMap, taxid_vec |-> <<>>,
                     parent_taxid_vec |-> <<>>, rank_vec |-> <<>>, name_vec |-> <<>>,
                     parent_distances |-> <<>>])
        named == read_names(names, 1, read.taxid_to_index, read.name_vec)
    IN  IF named.kind = "panic" THEN [kind |-> "panic"]
        ELSE [kind |-> "ok",
              taxid_vec |-> read.taxid_vec,
              parentid_vec |->
                  [i \in DOMAIN read.parent_taxid_vec |->
                      IF read.parent_taxid_vec[i] \in DOMAIN read.taxid_to_index
                      THEN read.taxid_to_index[read.parent_taxid_vec[i]]
                      ELSE 1],
              name_vec |-> named.name_vec,
              rank_vec |-> read.rank_vec,
              parent_distances |-> read.parent_distances]

(***************************** the files and the call ***********************)
\* A line of nodes.dmp with a record: taxid, parent taxid, rank.
NodeLine(taxid, parent_taxid) == <<taxid, parent_taxid, "species">>

\* A line of fewer than three parts: an empty line.
ShortLine == <<"">>

\* The lines of nodes.dmp: records with ids 1 to 3, whose parent id is one of
\* these or 9, which no record has, and short lines.
NodeLines ==
    {ShortLine} \cup {NodeLine(ToString(k), ToString(q)) : k \in 1..3, q \in {1, 2, 3, 9}}

\* The files in which no id is given twice.
NodesFiles ==
    {lines \in SeqsUpTo(NodeLines, MaxLines) :
        \A i, j \in DOMAIN lines :
            (i # j /\ lines[i] # ShortLine /\ lines[j] # ShortLine)
                => lines[i][1] # lines[j][1]}

\* A line of names.dmp as split('\t') parts it.
NameLine(taxid, name, class) == <<taxid, "|", name, "|", "", "|", class, "|">>

\* The files that give a synonym of 1 and the scientific names of the ids of S.
NamesFile(S) ==
    <<NameLine("1", "alias", "synonym")>>
    \o [i \in DOMAIN Sorted(S) |->
           NameLine(ToString(Sorted(S)[i]), "n" \o ToString(Sorted(S)[i]),
                    "scientific name")]

NamesFiles == {NamesFile(S) : S \in SUBSET (1..3)}

NcbiInit ==
    /\ TaxoIdle
    /\ TreeIdle
    /\ GenIdle
    /\ nodes_dmp \in NodesFiles
    /\ names_dmp \in NamesFiles
    /\ loaded = NoOutcome
    /\ RunIdle

\* load (lines 6-67) on the two files.
Load ==
    /\ loaded = NoOutcome
    /\ loaded' = load(nodes_dmp, names_dmp)
    /\ UNCHANGED <<nodes_dmp, names_dmp>>
    /\ UNCHANGED <<taxoVars, treeVars, genVars, runVars>>

NcbiNext == Load

NcbiSpec == NcbiInit /\ [][NcbiNext]_vars

(***************************** vocabulary of the loader properties *********)
\* load was called.
Loaded == loaded # NoOutcome

IsRecord(parts) == Len(parts) >= 3

\* The lines of nodes.dmp that are not skipped, in order.
Records == SelectSeq(nodes_dmp, IsRecord)

\* The ids that were loaded.
LoadedIds == {Records[i][1] : i \in DOMAIN Records}

(***************************** C23 *****************************************)
\* C23: load returns five sequences of one length, one entry for each
\* record, in which every parent index is a position, and is the position of
\* the record whose id is the parent id wherever such a record was loaded;
\* also when lines were skipped as too short.
C23_ParentIndexIsPositionOfParent ==
    Loaded =>
        /\ loaded.kind = "ok"
        /\ Len(loaded.taxid_vec) = Len(Records)
        /\ \A f \in {"parentid_vec", "name_vec", "rank_vec", "parent_distances"} :
              Len(loaded[f]) = Len(loaded.taxid_vec)
        /\ \A i \in DOMAIN Records :
              /\ loaded.parentid_vec[i] \in DOMAIN loaded.taxid_vec
              /\ Records[i][2] \in LoadedIds
                     => loaded.taxid_vec[loaded.parentid_vec[i]] = Records[i][2]

(***************************** C24 *****************************************)
\* The records whose parent id is the id of no loaded record.
Orphans == {i \in DOMAIN Records : Records[i][2] \notin LoadedIds}

\* C24: when the parent id of a record is the id of no loaded record, load
\* raises no error and the parent index of that record is the first
\* position: the record is a child of the first node, or its own parent when
\* it is the first node.
C24_UnresolvedParentFallsBackToFirst ==
    (Loaded /\ Orphans # {}) =>
        /\ loaded.kind = "ok"
        /\ \A i \in Orphans : loaded.parentid_vec[i] = 1

(***************************** C25 *****************************************)
\* The position of the node of the input that has the id of node i of the
\* pruned store (ids are unique).
Origin(i) == CHOOSE o \in Positions(input) : input.taxid_vec[o] = pruned.taxid_vec[i]

\* A prune was the last call.
Pruned == op \in {"prune_by_taxids", "prune_by_names", "prune_again"}

\* C25: in the store a prune returns, every parent index is a position of
\* that store and holds the id that the parent of the node has in the input:
\* the parent of every kept node is kept; and a node is its own parent in
\* the result exactly when it is in the input.
C25_PrunedParentsAreInputParents ==
    Pruned =>
        \A i \in Positions(pruned) :
            /\ Present(pruned, input.taxid_vec[input.parentid_vec[Origin(i)]])
            /\ pruned.parentid_vec[i] \in Positions(pruned)
            /\ pruned.taxid_vec[pruned.parentid_vec[i]]
                   = input.taxid_vec[input.parentid_vec[Origin(i)]]
            /\ SelfReferential(pruned, i) <=> SelfReferential(input, Origin(i))

\* A node that is not its own parent is kept and its parent moved to another
\* position, in a store that lost a node.
C25_Witness ==
    /\ Pruned
    /\ Size(pruned) < Size(input)
    /\ \E i \in Positions(pruned) :
          /\ ~SelfReferential(pruned, i)
          /\ pruned.parentid_vec[i] # input.parentid_vec[Origin(i)]

(***************************** C26 *****************************************)
\* The queries of a kind about a node that the last call sent.
Sent(kind, id) == {i \in DOMAIN fetches : fetches[i] = Fetch(kind, id)}

\* The fetches of rows and of children lists; an advance of a cursor is part
\* of the fetch of the children list it runs over.
RoundTrips == {i \in DOMAIN fetches : fetches[i].kind \in {"row", "children"}}

\* C26: a build_pruned_tree call that returns Ok on a table that is a forest
\* fetches, for every node of the subtree of the node it is called on, its
\* row once and its children list once, and fetches nothing else: the number
\* of round trips is twice the number of visited nodes.
C26_EachNodeFetchedOnce ==
    Built =>
        /\ Visited = Under(table, call.node)
        /\ \A id \in Under(table, call.node) :
              /\ Cardinality(Sent("row", id)) = 1
              /\ Cardinality(Sent("children", id)) = 1
        /\ \A i \in DOMAIN fetches : fetches[i].node \in Under(table, call.node)
        /\ Cardinality(RoundTrips) = 2 * Cardinality(Visited)

\* A chain of three nodes built from its top: six round trips.
C26_Witness ==
    /\ Built
    /\ call.node = 1
    /\ Under(table, 1) = {1, 2, 3}
    /\ RowOf(table, 3).parent = 2
    /\ RowOf(table, 2).parent = 1
    /\ Cardinality(RoundTrips) = 6

(***************************** the calls, one step at a time ****************)
\* The stores and the tables the stepped calls run on: every parent function,
\* one payload for each node.
RunStores == {t \in Stores : \A i \in DOMAIN t.name_vec : t.name_vec[i] = "Bacteria"}

RunTables ==
    {tbl \in Tables :
        \A i \in DOMAIN tbl :
            tbl[i].name = NodePayloads[(tbl[i].node % Len(NodePayloads)) + 1].name}

\* The Taxonomy that prune_by_taxids makes of the marked positions (lines 45-78).
new_taxonomy(t, keep_indices) ==
    LET new == copy_kept(t, keep_indices, 1, NewVectors)
    IN  Taxonomy(new.taxid_vec,
                 update_parents(t, new.old_to_new_index,
                                DOMAIN new.old_to_new_index, new.parentid_vec),
                 new.name_vec,
                 new.rank_vec,
                 new.parent_distances)

\* The String newick_recursive makes of a node once the Strings of its
\* children are in hand (lines 121-145).
format_node(t, node_index, children, child_strings) ==
    IF children = <<>>
    THEN <<t.name_vec[node_index], "_", t.taxid_vec[node_index], "_",
           DisplayF64(t.parent_distances[node_index])>>
    ELSE <<"(">> \o join(child_strings, ",") \o
         <<")", t.name_vec[node_index], "_", t.taxid_vec[node_index], ":",
           DisplayF64(IF node_index = t.parentid_vec[node_index]
                      THEN 0
                      ELSE t.parent_distances[node_index])>>

\* The innermost frame, and the stack with that frame replaced.
Top == stack[Len(stack)]

Caller == SubSeq(stack, 1, Len(stack) - 1)

\* prune_by_taxids is entered (lines 28-35): nothing is marked.
RunPrune ==
    /\ taxonomy \in RunStores
    /\ args \in SeqsUpTo(RequestTaxids, MaxKeep)
    /\ pruned = NoTaxonomy
    /\ newick = NoNewick
    /\ op = "prune_by_taxids"
    /\ input = taxonomy
    /\ TreeIdle
    /\ pc = "for_taxid"
    /\ stack = <<[keep_indices |-> {}, k |-> 1, current_index |-> 0]>>

\* to_newick is entered (line 102).
RunToNewick ==
    /\ taxonomy \in RunStores
    /\ args = <<>>
    /\ pruned = NoTaxonomy
    /\ newick = NoNewick
    /\ op = "to_newick"
    /\ input = taxonomy
    /\ TreeIdle
    /\ pc = "to_newick"
    /\ stack = <<>>

\* build_pruned_tree is entered on a node of a table with no cycle (line 120).
RunBuild ==
    /\ TaxoIdle
    /\ table \in RunTables
    /\ leaf_nodes \in LeafLists
    /\ call \in {[node |-> node, fail_at |-> 0] : node \in 1..MaxRows}
    /\ outcome = NoOutcome
    /\ fetches = <<>>
    /\ buffer = <<>>
    /\ tree_op = "build_pruned_tree"
    /\ pc = "build_pruned_tree"
    /\ stack = <<>>

RunInit ==
    /\ \/ RunPrune
       \/ RunToNewick
       \/ RunBuild
    /\ GenIdle
    /\ NcbiIdle

\* One turn of the loop over taxids (lines 38-42), and what follows the loop
\* (lines 45-78).
ForTaxid ==
    /\ pc = "for_taxid"
    /\ IF Top.k > Len(args)
       THEN /\ pruned' = new_taxonomy(taxonomy, Top.keep_indices)
            /\ pc' = "returned"
            /\ stack' = <<>>
       ELSE LET index == taxid_to_index(taxonomy, args[Top.k])
            IN  /\ IF index # 0
                   THEN /\ pc' = "while"
                        /\ stack' = <<[Top EXCEPT !.current_index = index]>>
                   ELSE /\ pc' = "for_taxid"
                        /\ stack' = <<[Top EXCEPT !.k = @ + 1]>>
                /\ UNCHANGED pruned
    /\ UNCHANGED <<taxonomy, newick, op, input, args>>
    /\ UNCHANGED <<treeVars, genVars, ncbiVars>>

\* Faulty variant: the walk does not test whether the node is marked.
WhileUnmarked ==
    /\ pc = "while"
    /\ LET parent_index == taxonomy.parentid_vec[Top.current_index]
           marked == [Top EXCEPT !.keep_indices = @ \cup {Top.current_index}]
       IN  IF parent_index = Top.current_index
           THEN /\ pc' = "for_taxid"
                /\ stack' = <<[marked EXCEPT !.k = @ + 1]>>
           ELSE /\ pc' = "while"
                /\ stack' = <<[marked EXCEPT !.current_index = parent_index]>>
    /\ UNCHANGED taxoVars
    /\ UNCHANGED <<treeVars, genVars, ncbiVars>>

\* One turn of the while loop of add_ancestors_to_keep (lines 92-99).
While ==
    /\ pc = "while"
    /\ IF Top.current_index \in Top.keep_indices
       THEN /\ pc' = "for_taxid"
            /\ stack' = <<[Top EXCEPT !.k = @ + 1]>>
       ELSE LET parent_index == taxonomy.parentid_vec[Top.current_index]
                marked == [Top EXCEPT !.keep_indices = @ \cup {Top.current_index}]
            IN  IF parent_index = Top.current_index
                THEN /\ pc' = "for_taxid"
                     /\ stack' = <<[marked EXCEPT !.k = @ + 1]>>
                ELSE /\ pc' = "while"
                     /\ stack' = <<[marked EXCEPT !.current_index = parent_index]>>
    /\ UNCHANGED taxoVars
    /\ UNCHANGED <<treeVars, genVars, ncbiVars>>

\* The frame of newick_recursive on a node (lines 112-119).
NewickFrame(node_index) ==
    [node_index |-> node_index,
     children |-> children_of(taxonomy, node_index, 1),
     child_strings |-> <<>>]

\* The scan for the root (lines 103-107), and the call on it (line 109).
ToNewick ==
    /\ pc = "to_newick"
    /\ LET root_index == root_position(taxonomy, 1)
       IN  IF root_index = 0
           THEN /\ newick' = [kind |-> "panic", text |-> <<"Root node not found">>]
                /\ pc' = "panicked"
                /\ UNCHANGED stack
           ELSE /\ pc' = "newick_recursive"
                /\ stack' = <<NewickFrame(root_index)>>
                /\ UNCHANGED newick
    /\ UNCHANGED <<taxonomy, pruned, op, input, args>>
    /\ UNCHANGED <<treeVars, genVars, ncbiVars>>

\* newick_recursive is called on the next child (line 131).
NewickCall ==
    /\ pc = "newick_recursive"
    /\ Len(Top.child_strings) < Len(Top.children)
    /\ stack' = Append(stack, NewickFrame(Top.children[Len(Top.child_strings) + 1]))
    /\ UNCHANGED pc
    /\ UNCHANGED taxoVars
    /\ UNCHANGED <<treeVars, genVars, ncbiVars>>

\* newick_recursive returns its String (lines 121-145) to its caller.
NewickReturn ==
    /\ pc = "newick_recursive"
    /\ Len(Top.child_strings) = Len(Top.children)
    /\ LET string == format_node(taxonomy, Top.node_index, Top.children,
                                 Top.child_strings)
       IN  IF Len(stack) = 1
           THEN /\ newick' = [kind |-> "ok", text |-> string]
                /\ pc' = "returned"
                /\ stack' = <<>>
           ELSE /\ stack' = [Caller EXCEPT
                                ![Len(stack) - 1].child_strings = Append(@, string)]
                /\ UNCHANGED <<newick, pc>>
    /\ UNCHANGED <<taxonomy, pruned, op, input, args>>
    /\ UNCHANGED <<treeVars, genVars, ncbiVars>>

\* The call returns an error: every frame is left through its `?`.
BuildErr(error, log) ==
    /\ outcome' = [kind |-> "err", error |-> error]
    /\ fetches' = log
    /\ pc' = "returned"
    /\ stack' = <<>>

\* build_pruned_tree is entered on a node (lines 126-139): on the node of the
\* call, or on the next child the cursor of the caller yields (lines 142-144);
\* any of the queries may fail.
BuildCall ==
    /\ pc = "build_pruned_tree"
    /\ stack # <<>> => Top.next <= Len(Top.ids)
    /\ LET node == IF stack = <<>> THEN call.node ELSE Top.ids[Top.next]
           stepped == IF stack = <<>> THEN fetches
                      ELSE Append(fetches, Fetch("next", Top.current_node.node))
           asked == Append(stepped, Fetch("row", node))
           opened == Append(asked, Fetch("children", node))
           rows == query_row(table, node)
       IN  \/ /\ stack # <<>>
              /\ BuildErr("storage", stepped)
           \/ BuildErr("storage", asked)
           \/ /\ rows = <<>>
              /\ BuildErr("QueryReturnedNoRows", asked)
           \/ /\ rows # <<>>
              /\ BuildErr("storage", opened)
           \/ /\ rows # <<>>
              /\ stack' = Append(stack,
                     [current_node |-> from_row(rows[1]),
                      is_specified_leaf |-> node \in Range(leaf_nodes),
                      ids |-> query_children(table, node),
                      next |-> 1])
              /\ fetches' = opened
              /\ UNCHANGED <<outcome, pc>>
    /\ UNCHANGED <<table, leaf_nodes, call, buffer, tree_op>>
    /\ UNCHANGED <<taxoVars, genVars, ncbiVars>>

\* build_pruned_tree returns Some or None (lines 150-159) to its caller, which
\* pushes the child (lines 144-147).
BuildReturn ==
    /\ pc = "build_pruned_tree"
    /\ stack # <<>>
    /\ Top.next > Len(Top.ids)
    /\ LET value == IF retain(Top.is_specified_leaf, Top.current_node.children,
                              Top.current_node.children # <<>>)
                    THEN Some(Top.current_node)
                    ELSE None
       IN  IF Len(stack) = 1
           THEN /\ outcome' = [kind |-> "ok", value |-> value]
                /\ pc' = "returned"
                /\ stack' = <<>>
           ELSE /\ stack' = [Caller EXCEPT
                                ![Len(stack) - 1].next = @ + 1,
                                ![Len(stack) - 1].current_node.children =
                                    IF value.some THEN Append(@, value.value) ELSE @]
                /\ UNCHANGED <<outcome, pc>>
    /\ UNCHANGED <<table, leaf_nodes, call, fetches, buffer, tree_op>>
    /\ UNCHANGED <<taxoVars, genVars, ncbiVars>>

RunNext ==
    \/ ForTaxid
    \/ While
    \/ ToNewick
    \/ NewickCall
    \/ NewickReturn
    \/ BuildCall
    \/ BuildReturn

\* The thread that runs the call is never stopped for good.
RunSpec == RunInit /\ [][RunNext]_vars /\ WF_vars(RunNext)

\* The call is over.
CallIsOver == pc = "returned"

\* C27: prune_by_taxids returns on every store whose parent indices are valid
\* positions, cycles without a self-referential node included; to_newick
\* returns on every such store in which the scan finds a root; and
\* build_pruned_tree returns on every table whose parent links have no cycle.
C27_EveryCallReturns ==
    /\ (pc = "for_taxid") ~> CallIsOver
    /\ (pc = "to_newick" /\ root_position(taxonomy, 1) # 0) ~> CallIsOver
    /\ (pc = "build_pruned_tree") ~> CallIsOver

\* prune_by_taxids has returned from a walk on a cycle of three nodes, none
\* of which is its own parent.
C27_Witness ==
    /\ CallIsOver
    /\ op = "prune_by_taxids"
    /\ Len(taxonomy.parentid_vec) = 3
    /\ \A i \in 1..3 : Ancestor(taxonomy, i, 3) = i /\ taxonomy.parentid_vec[i] # i
    /\ Len(pruned.taxid_vec) = 3

(***************************** the two relational prunes ********************)
\* What build_pruned_tree returns for the call that was made, and the queries
\* it sends.
Twin == build_pruned_tree(table, call.node, leaf_nodes, <<>>, call.fail_at)

\* C28: on every table, node and leaf list, _build_pruned_tree returns what
\* build_pruned_tree returns: the same error, or the same None, or Some of
\* the same node with the same children below it, after the same queries.
C28_BothPrunesAgree ==
    tree_op = "_build_pruned_tree" =>
        /\ outcome = IF Twin.kind = "ok"
                     THEN [kind |-> "ok", value |-> Twin.value]
                     ELSE [kind |-> "err", error |-> Twin.error]
        /\ fetches = Twin.log

\* _build_pruned_tree has returned a listed node with a listed child below
\* it: the listed node is retained for its child by both functions, the child
\* for being listed and childless.
C28_Witness ==
    /\ tree_op = "_build_pruned_tree"
    /\ outcome.kind = "ok"
    /\ outcome.value.some
    /\ call.node \in Range(leaf_nodes)
    /\ Len(outcome.value.value.children) = 1
    /\ outcome.value.value.children[1].node \in Range(leaf_nodes)
    /\ outcome.value.value.children[1].children = <<>>

====
